---- MODULE Spec2Model ----
(***************************************************************************)
(* Model of the telemetry persistence pipeline of db_query_optimization:   *)
(*   common/logger/persistence.py      LogPersistenceHandler (dispatcher)  *)
(*   common/logger/log_backends/*.py   sink registry and file sink         *)
(*   common/config/env_config.py       require_env                         *)
(*                                                                         *)
(* Threads: the importing thread (0) that executes the module body of      *)
(* persistence.py, further threads that call LogPersistenceHandler(),      *)
(* request threads that call persist_log, the LogPersistenceWorker thread, *)
(* the thread serving /metrics, and the caller of shutdown_persistence.    *)
(***************************************************************************)
EXTENDS Integers, Sequences, FiniteSets, TLC

\* ---------------------------------------------------------------- bounds
\* Stand-in for queue.Queue(maxsize=10000); as in the source it is larger
\* than the batch cap, so that a full batch can leave entries behind.
QueueCapacity == 3
\* Stand-in for the batch cap "while len(batch) < 100".
MaxBatch == 2
\* Number of log entries the request threads produce in one behaviour.
MaxEntries == 4
\* Number of threads, besides the importing thread, that call
\* LogPersistenceHandler().
NumCtorThreads == 2
\* Number of sink faults (write failure, write exception, constructor
\* failure) the environment injects in one behaviour.
MaxFaults == 1
\* Number of requests the interceptor serves in one behaviour, all of which
\* may be in flight at once.
NumRequests == 2
\* Number of sub-spans a handler opens through the ambient handle.
MaxSpans == 2
\* Number of times time.perf_counter() is seen to advance.
MaxTicks == 2
\* Number of midnights that pass after the process started.
MaxDays == 3
\* Number of entries the logger hands to the file sink in one behaviour.
MaxLines == 2
\* Number of times optimization_warnings of one entry is evaluated.
MaxEvals == 2
\* Number of request threads that call enqueue_log at the same time.
NumProducers == 2
\* Number of enqueue_log calls these threads make in one behaviour.
MaxCalls == 5

\* ------------------------------------------------------------ constants
\* Values of LOG_BACKENDS after split(",") and strip(): <<>> stands for an
\* unset or empty variable. "file" is the built-in identifier; "dd" names a
\* sink class that is known only once register_backend("dd", ...) ran.
Configs == {<<>>, <<"file">>, <<"dd">>, <<"file", "file">>,
            <<"file", "dd">>, <<"dd", "file">>}

CtorThreads == 0..NumCtorThreads
Importer == 0
EntryIds == 1..MaxEntries
\* Threads that add to _failed_logs: the consumer and the request threads.
ConsumerThread == 0
ProducerThreads == 1..NumProducers
CounterThreads == 0..NumProducers
\* Callers of get_active_backends: the consumer thread (_write_batch) and
\* the thread serving /metrics (get_all_metrics).
Callers == {"worker", "metrics"}

\* Requests served by the interceptor; request r runs dispatch in a task of
\* its own and owns the RequestTimer object numbered r.
Requests == 1..NumRequests
\* None, the default of request_timer_context_var.
NoTimer == 0
\* Names under which collaborators of a handler open sub-spans; dispatch
\* itself opens "app".
SpanNames == {"db", "sql"}
\* Status codes a handler answers with, on both sides of 400 and 500.
StatusCodes == {200, 399, 400, 499, 500}
\* The duration in milliseconds above which a request is slow.
SlowRequestMs == 1000
\* Amounts in milliseconds by which time.perf_counter() is seen to advance
\* between two steps: durations lie below, at and above SlowRequestMs.
TickSizes == {SlowRequestMs}
\* Values of the slow_query_threshold parameter of the middleware.
Thresholds == {500, 1000}
\* SLOW_QUERY_THRESHOLD as the process finds it at start-up.
DefaultThreshold == 1000
\* Inputs of optimization_warnings, on both sides of each of its limits:
\* query counts around 5 and 10, SQL times around 100 and the thresholds,
\* session overheads around half the thresholds, durations around 50 and
\* 200 and a long one.
QueryCounts == {0, 5, 6, 10, 11}
SqlTimes == {100, 101, 500, 501, 1001}
Overheads == {0, 250, 251, 501}
Durations == {50, 51, 200, 201, 2000}
\* The day on which the process starts: Sunday 2024-12-29, the last day of
\* ISO week 52. The days that follow lie in week 1 of 2025, on both sides of
\* the year's end.
FirstDay == <<2024, 12, 29>>

VARIABLES
    \* LogPersistenceHandler class and instance
    instance,           \* cls._instance: 0 is None, else the object number
    initialized,        \* instance._initialized
    objectsCreated,     \* number of objects made by super().__new__
    queuesCreated,      \* number of queue.Queue objects bound to _queue
    workersStarted,     \* number of threads started by _start_worker
    ctorPc,             \* position of each constructing thread
    \* dispatcher state
    queue,              \* self._queue contents, head first
    unfinished,         \* self._queue.unfinished_tasks
    shutdown_event,     \* self._shutdown_event.is_set()
    total_logs,         \* self._total_logs
    failed_logs,        \* self._failed_logs
    workerPc,           \* position of the LogPersistenceWorker thread
    batch,              \* the local "batch" of _process_queue
    bi, ei,             \* loop positions of _write_batch
    \* registry state
    config,             \* LOG_BACKENDS
    registry,           \* keys of _BACKEND_REGISTRY
    active,             \* _active_backends
    backends_initialized,
    regPc, regIdx,      \* position of each caller inside the registry
    \* request threads
    nextId,             \* next fresh log entry
    lastEnqueue,        \* entry and return value of the last enqueue_log
    \* shutdown caller
    shutPc,
    \* history
    atShutdown,         \* entries pending when the shutdown flag was set
    usable,             \* configured positions that yielded an instance
    instCount,          \* instances constructed per configured position
    entryMetrics,       \* per entry: sink counter increments it caused
    errSeen,            \* an exception was raised inside a consumer iteration
    faults,             \* injected sink faults so far
    \* request interceptor
    mw,                 \* the RequestLoggingMiddleware instance
    clock,              \* time.perf_counter() in milliseconds
    req,                \* per request: the locals of dispatch, the
                        \* Request and Response objects, and (history)
                        \* the spans whose wrapped work has returned
    timings,            \* per RequestTimer object: its timings dict
    ctx,                \* request_timer_context_var in the context of the
                        \* task that runs dispatch
    hctx,               \* the same variable in the context of the task
                        \* that runs the downstream application
    log_calls,          \* per request: the calls made on self.logger
    timing_calls,       \* AppLogger._timing_stats.total_calls
    \* weekly files
    today,              \* date.today(), as a day number
    pending,            \* entries built by _log_with_persistence that the
                        \* consumer has not yet handed to the file sink
    file_sink,          \* the FileBackend instance
    files,              \* the log directory: per file name, its lines
    \* text of a weekly file
    content,            \* the characters of the file of today's week
    appended,           \* (history) the mappings written to it, in order
    \* computed fields of a log entry
    environ,            \* os.environ
    entry_obj,          \* a RequestLogEntry, EmptyDict before it is built
    evals,              \* (history) the evaluations of optimization_warnings:
                        \* os.environ at the time and what came out
    \* batching
    pendingAtGet,       \* (history) while a batch is being filled, the number
                        \* of entries that were in the queue when the consumer
                        \* obtained its first item; 0 otherwise
    \* the unlocked counter
    rmw,                \* per thread: where it stands in a
                        \* "self._failed_logs += n" (the attribute is loaded,
                        \* then the sum is stored), the value it loaded and
                        \* the entry of its enqueue_log call
    dropped,            \* (history) enqueue_log calls that returned False
    failedCounted       \* (history) entries of the batches that _write_batch
                        \* counted as failed

handlerVars == <<instance, initialized, objectsCreated, queuesCreated,
                 workersStarted, ctorPc>>
dispVars == <<queue, unfinished, shutdown_event, total_logs, failed_logs,
              workerPc, batch, bi, ei>>
regVars == <<config, registry, active, backends_initialized, regPc, regIdx>>
prodVars == <<nextId, lastEnqueue>>
histVars == <<atShutdown, usable, instCount, entryMetrics, errSeen, faults>>
reqVars == <<mw, clock, req, timings, ctx, hctx, log_calls, timing_calls>>
fileVars == <<today, pending, file_sink, files>>
jsonVars == <<content, appended>>
warnVars == <<environ, entry_obj, evals>>
batchVars == <<pendingAtGet>>
cntVars == <<rmw, dropped, failedCounted>>
vars == <<handlerVars, dispVars, regVars, prodVars, shutPc, histVars,
          reqVars, fileVars, jsonVars, warnVars, batchVars, cntVars>>

\* ---------------------------------------------------------------- helpers
Range(s) == {s[i] : i \in DOMAIN s}

\* A dict as a function on its keys: dict(), d.get(k, default), d[k] = v.
EmptyDict == [k \in {} |-> 0]
DictGet(d, k, default) == IF k \in DOMAIN d THEN d[k] ELSE default
DictSet(d, k, v) == [x \in DOMAIN d \cup {k} |-> IF x = k THEN v ELSE d[x]]

\* A sink instance as the class constructs it (FileBackend.__init__, lines
\* 18-34): pos is the position of its identifier in LOG_BACKENDS (0 for the
\* fallback of registry.py line 78), by the thread that constructed it,
\* calls the entries write was called with, lines the entries appended.
NewSink(kind, pos, by) ==
    [kind |-> kind, pos |-> pos, by |-> by, total_writes |-> 0,
     failed_writes |-> 0, calls |-> <<>>, lines |-> <<>>]

\* ------------------------------------------------------------- datetime
\* A date object is its day number, counted from Monday 2024-01-01 as day 0
\* (date.toordinal() shifted); the text "YYYY-MM-DD" is the tuple
\* <<year, month, day>>.
is_leap(y) == (y % 4 = 0 /\ y % 100 # 0) \/ y % 400 = 0

days_in_month(y, m) ==
    IF m = 2 THEN (IF is_leap(y) THEN 29 ELSE 28)
    ELSE IF m \in {4, 6, 9, 11} THEN 30 ELSE 31

days_in_year(y) == IF is_leap(y) THEN 366 ELSE 365

\* Number of days between 2024-01-01 and January 1st of year y.
RECURSIVE days_before_year(_)
days_before_year(y) ==
    IF y = 2024 THEN 0
    ELSE IF y > 2024 THEN days_before_year(y - 1) + days_in_year(y - 1)
    ELSE days_before_year(y + 1) - days_in_year(y)

\* Number of days of year y before the first of month m.
RECURSIVE days_before_month(_, _)
days_before_month(y, m) ==
    IF m = 1 THEN 0
    ELSE days_before_month(y, m - 1) + days_in_month(y, m - 1)

\* Years the dates of the model lie in.
Years == 2021..2026

\* date.fromisoformat accepts the text of a day that exists and raises
\* ValueError on any other.
is_date(s) ==
    /\ s[2] \in 1..12
    /\ s[3] \in 1..days_in_month(s[1], s[2])

\* date.fromisoformat(s) of a text that is_date.
fromisoformat(s) ==
    days_before_year(s[1]) + days_before_month(s[1], s[2]) + s[3] - 1

\* date.isoformat().
isoformat(d) ==
    LET y == CHOOSE yy \in Years :
                 /\ days_before_year(yy) <= d
                 /\ d < days_before_year(yy + 1)
        n == d - days_before_year(y)
        m == CHOOSE mm \in 1..12 :
                 /\ days_before_month(y, mm) <= n
                 /\ n < days_before_month(y, mm) + days_in_month(y, mm)
    IN  <<y, m, n - days_before_month(y, m) + 1>>

\* date.weekday(): Monday is 0, Sunday is 6.
weekday(d) == d % 7

\* _isoweek1monday(year): the Monday of the week that holds the year's
\* first Thursday.
isoweek1monday(y) ==
    LET firstday == days_before_year(y)
        firstweekday == weekday(firstday)
    IN  IF firstweekday > 3 THEN firstday - firstweekday + 7
        ELSE firstday - firstweekday

\* date.isocalendar()[1], the ISO 8601 week number, as datetime computes
\* it: the week index inside the date's own year, moved to the last week of
\* the year before or to week 1 of the year after at the year's ends.
isocalendar_week(d) ==
    LET y == isoformat(d)[1]
        week == (d - isoweek1monday(y)) \div 7
    IN  IF week < 0
        THEN (d - isoweek1monday(y - 1)) \div 7 + 1
        ELSE IF week >= 52 /\ d >= isoweek1monday(y + 1) THEN 1
        ELSE week + 1


\* The module body of persistence.py has run to its end: the class exists
\* and _persistence_handler is bound (line 191). Other threads reach the
\* class and the module functions only through the import, which blocks
\* on the module lock until then.
ModuleLoaded == ctorPc[Importer] = "done"

Init ==
    /\ instance = 0
    /\ initialized = FALSE
    /\ objectsCreated = 0
    /\ queuesCreated = 0
    /\ workersStarted = 0
    /\ ctorPc = [t \in CtorThreads |-> IF t = Importer THEN "new" ELSE "idle"]
    /\ queue = <<>>
    /\ unfinished = 0
    /\ shutdown_event = FALSE
    /\ total_logs = 0
    /\ failed_logs = 0
    /\ workerPc = "none"
    /\ batch = <<>>
    /\ bi = 1
    /\ ei = 1
    /\ config \in Configs
    /\ registry = {"file"}
    /\ active = <<>>
    /\ backends_initialized = FALSE
    /\ regPc = [c \in Callers |-> "idle"]
    /\ regIdx = [c \in Callers |-> 1]
    /\ nextId = 1
    /\ lastEnqueue = [id |-> 0, result |-> TRUE]
    /\ shutPc = "idle"
    /\ atShutdown = {}
    /\ usable = {}
    /\ instCount = [p \in 0..2 |-> 0]
    /\ entryMetrics = [e \in EntryIds |-> [succ |-> 0, fail |-> 0]]
    /\ errSeen = FALSE
    /\ faults = 0
    /\ mw = [made |-> FALSE, expose_performance_headers |-> FALSE,
             log_details |-> TRUE, slow_query_threshold |-> 1000]
    /\ clock = 0
    /\ req = [r \in Requests |->
                [pc |-> "idle", headers |-> EmptyDict, request_id |-> "",
                 start_time |-> 0, app_start |-> 0, token |-> NoTimer,
                 expose_perf |-> FALSE, spans |-> <<>>, opened |-> 0,
                 completed |-> <<>>, exc |-> FALSE, status_code |-> 0,
                 response_headers |-> EmptyDict, perf_data |-> EmptyDict]]
    /\ timings = [r \in Requests |-> EmptyDict]
    /\ ctx = [r \in Requests |-> NoTimer]
    /\ hctx = [r \in Requests |-> NoTimer]
    /\ log_calls = [r \in Requests |-> <<>>]
    /\ timing_calls = 0
    /\ today = fromisoformat(FirstDay)
    /\ pending = <<>>
    /\ file_sink = NewSink("file", 0, "worker")
    /\ files = EmptyDict
    /\ content = <<>>
    /\ appended = <<>>
    /\ environ = DictSet(EmptyDict, "SLOW_QUERY_THRESHOLD", DefaultThreshold)
    /\ entry_obj = EmptyDict
    /\ evals = <<>>
    /\ pendingAtGet = 0
    /\ rmw = [t \in CounterThreads |-> [pc |-> "idle", loaded |-> 0, entry |-> 0]]
    /\ dropped = 0
    /\ failedCounted = 0

\* ------------------------------------------------ LogPersistenceHandler()
\* __new__, line 33 (first, unlocked test) and line 39.
Handler_new_check(t) ==
    /\ ctorPc[t] = "new"
    /\ ctorPc' = [ctorPc EXCEPT ![t] = IF instance = 0 THEN "locked" ELSE "init"]
    /\ UNCHANGED <<reqVars, fileVars, jsonVars, warnVars, batchVars, cntVars, instance, initialized, objectsCreated, queuesCreated,
                   workersStarted, dispVars, regVars, prodVars, shutPc, histVars>>

\* __new__, lines 34-38: the body of "with cls._lock", one step because the
\* lock excludes every other thread from it.
Handler_new_locked(t) ==
    /\ ctorPc[t] = "locked"
    /\ IF instance = 0
       THEN /\ objectsCreated' = objectsCreated + 1
            /\ instance' = objectsCreated + 1
            /\ initialized' = FALSE
       ELSE UNCHANGED <<objectsCreated, instance, initialized>>
    /\ ctorPc' = [ctorPc EXCEPT ![t] = "init"]
    /\ UNCHANGED <<reqVars, fileVars, jsonVars, warnVars, batchVars, cntVars, queuesCreated, workersStarted, dispVars, regVars, prodVars,
                   shutPc, histVars>>

\* The thread leaves LogPersistenceHandler(): the importing thread goes on
\* to the end of the module body, any other thread to its caller.
CtorReturn(t) == IF t = Importer THEN "done" ELSE "idle"

\* __init__, lines 43-44, with the guard removed.
Handler_init_check_unguarded(t) ==
    /\ ctorPc[t] = "init"
    /\ ctorPc' = [ctorPc EXCEPT ![t] = "fields"]
    /\ UNCHANGED <<reqVars, fileVars, jsonVars, warnVars, batchVars, cntVars, instance, initialized, objectsCreated, queuesCreated,
                   workersStarted, dispVars, regVars, prodVars, shutPc, histVars>>

\* __init__, lines 43-44.
Handler_init_check(t) ==
    /\ ctorPc[t] = "init"
    /\ ctorPc' = [ctorPc EXCEPT ![t] = IF initialized THEN CtorReturn(t) ELSE "fields"]
    /\ UNCHANGED <<reqVars, fileVars, jsonVars, warnVars, batchVars, cntVars, instance, initialized, objectsCreated, queuesCreated,
                   workersStarted, dispVars, regVars, prodVars, shutPc, histVars>>

\* __init__, lines 46-55: a new queue, a new event, no worker thread, zeroed
\* metrics, and the instance marked initialized.
Handler_init_fields(t) ==
    /\ ctorPc[t] = "fields"
    /\ queue' = <<>>
    /\ unfinished' = 0
    /\ queuesCreated' = queuesCreated + 1
    /\ shutdown_event' = FALSE
    /\ total_logs' = 0
    /\ failed_logs' = 0
    /\ initialized' = TRUE
    /\ ctorPc' = [ctorPc EXCEPT ![t] = "start"]
    /\ UNCHANGED <<reqVars, fileVars, jsonVars, warnVars, batchVars, cntVars, instance, objectsCreated, workersStarted, workerPc, batch,
                   bi, ei, regVars, prodVars, shutPc, histVars>>

\* _start_worker, lines 58-68. __init__ has just set _worker_thread to
\* None (line 48), so the early return of line 60 is not taken and a thread
\* running _process_queue is started.
Handler_start_worker(t) ==
    /\ ctorPc[t] = "start"
    /\ workersStarted' = workersStarted + 1
    /\ workerPc' = "loop"
    /\ ctorPc' = [ctorPc EXCEPT ![t] = CtorReturn(t)]
    /\ UNCHANGED <<reqVars, fileVars, jsonVars, warnVars, batchVars, cntVars, instance, initialized, objectsCreated, queuesCreated,
                   queue, unfinished, shutdown_event, total_logs, failed_logs,
                   batch, bi, ei, regVars, prodVars, shutPc, histVars>>

\* Another thread calls LogPersistenceHandler() once the module is loaded.
Handler_call(t) ==
    /\ t # Importer
    /\ ModuleLoaded
    /\ ctorPc[t] = "idle"
    /\ ctorPc' = [ctorPc EXCEPT ![t] = "new"]
    /\ UNCHANGED <<reqVars, fileVars, jsonVars, warnVars, batchVars, cntVars, instance, initialized, objectsCreated, queuesCreated,
                   workersStarted, dispVars, regVars, prodVars, shutPc, histVars>>

\* ------------------------------------------------------------ enqueue_log
\* queue.Queue.put_nowait on the queue of line 46, with the fullness test
\* off by one.
put_nowait_off_by_one(q, e) ==
    IF Len(q) > QueueCapacity
    THEN [full |-> TRUE, q |-> q]
    ELSE [full |-> FALSE, q |-> Append(q, e)]

\* queue.Queue.put_nowait on the queue of line 46: raises Full when the
\* queue holds maxsize items, appends at the tail otherwise.
put_nowait(q, e) ==
    IF Len(q) >= QueueCapacity
    THEN [full |-> TRUE, q |-> q]
    ELSE [full |-> FALSE, q |-> Append(q, e)]

\* enqueue_log whose except branch forgets the counter.
enqueue_log_uncounted ==
    /\ ModuleLoaded
    /\ nextId <= MaxEntries
    /\ LET r == put_nowait(queue, nextId) IN
         /\ queue' = r.q
         /\ unfinished' = IF r.full THEN unfinished ELSE unfinished + 1
         /\ failed_logs' = failed_logs
         /\ lastEnqueue' = [id |-> nextId, result |-> ~r.full]
    /\ nextId' = nextId + 1
    /\ UNCHANGED <<reqVars, fileVars, jsonVars, warnVars, batchVars, cntVars, handlerVars, shutdown_event, total_logs, workerPc, batch,
                   bi, ei, regVars, shutPc, histVars>>

\* enqueue_log, lines 134-153 (persist_log, lines 194-207), called by a
\* request thread with a fresh entry.
enqueue_log ==
    /\ ModuleLoaded
    /\ nextId <= MaxEntries
    /\ LET r == put_nowait(queue, nextId) IN
         /\ queue' = r.q
         /\ unfinished' = IF r.full THEN unfinished ELSE unfinished + 1
         /\ failed_logs' = IF r.full THEN failed_logs + 1 ELSE failed_logs
         /\ lastEnqueue' = [id |-> nextId, result |-> ~r.full]
    /\ nextId' = nextId + 1
    /\ UNCHANGED <<reqVars, fileVars, jsonVars, warnVars, batchVars, cntVars, handlerVars, shutdown_event, total_logs, workerPc, batch,
                   bi, ei, regVars, shutPc, histVars>>

\* enqueue_log, lines 144-147, in request thread t: put_nowait either
\* appends the entry, and the call returns True, or raises Full, and the
\* thread enters the except branch.
enqueue_log_put(t) ==
    /\ ModuleLoaded
    /\ rmw[t].pc = "idle"
    /\ nextId <= MaxCalls
    /\ LET r == put_nowait(queue, nextId) IN
         /\ queue' = r.q
         /\ unfinished' = IF r.full THEN unfinished ELSE unfinished + 1
         /\ lastEnqueue' =
              IF r.full THEN lastEnqueue ELSE [id |-> nextId, result |-> TRUE]
         /\ rmw' = IF r.full
                   THEN [rmw EXCEPT ![t] = [pc |-> "load", loaded |-> 0,
                                            entry |-> nextId]]
                   ELSE rmw
    /\ nextId' = nextId + 1
    /\ UNCHANGED <<reqVars, fileVars, jsonVars, warnVars, batchVars, handlerVars, shutdown_event, total_logs, failed_logs,
                   workerPc, batch, bi, ei, regVars, shutPc, histVars,
                   dropped, failedCounted>>

\* Line 152, first half: "self._failed_logs += 1" loads the attribute.
enqueue_log_load(t) ==
    /\ rmw[t].pc = "load"
    /\ rmw' = [rmw EXCEPT ![t].pc = "store", ![t].loaded = failed_logs]
    /\ UNCHANGED <<reqVars, fileVars, jsonVars, warnVars, batchVars, handlerVars, dispVars, regVars, prodVars, shutPc,
                   histVars, dropped, failedCounted>>

\* Lines 152-153: the sum of the loaded value and 1 is stored, and the call
\* returns False.
enqueue_log_store(t) ==
    /\ rmw[t].pc = "store"
    /\ failed_logs' = rmw[t].loaded + 1
    /\ dropped' = dropped + 1
    /\ lastEnqueue' = [id |-> rmw[t].entry, result |-> FALSE]
    /\ rmw' = [rmw EXCEPT ![t] = [pc |-> "idle", loaded |-> 0, entry |-> 0]]
    /\ UNCHANGED <<reqVars, fileVars, jsonVars, warnVars, batchVars, handlerVars, queue, unfinished, shutdown_event, total_logs,
                   workerPc, batch, bi, ei, regVars, nextId, shutPc, histVars,
                   failedCounted>>

\* --------------------------------------------------------- _process_queue
\* Line 72: the loop test.
process_queue_test ==
    /\ workerPc = "loop"
    /\ workerPc' = IF shutdown_event THEN "exited" ELSE "get"
    /\ UNCHANGED <<reqVars, fileVars, jsonVars, warnVars, batchVars, cntVars, handlerVars, queue, unfinished, shutdown_event, total_logs,
                   failed_logs, batch, bi, ei, regVars, prodVars, shutPc,
                   histVars>>

\* The get of a LifoQueue: the newest item is handed over.
process_queue_get_lifo ==
    /\ workerPc = "get"
    /\ IF queue # <<>>
       THEN /\ batch' = <<queue[Len(queue)]>>
            /\ queue' = SubSeq(queue, 1, Len(queue) - 1)
            /\ workerPc' = "fill"
       ELSE /\ workerPc' = "loop"
            /\ UNCHANGED <<batch, queue>>
    /\ pendingAtGet' = Len(queue)
    /\ UNCHANGED <<reqVars, fileVars, jsonVars, warnVars, cntVars, handlerVars, unfinished, shutdown_event, total_logs,
                   failed_logs, bi, ei, regVars, prodVars, shutPc, histVars>>

\* Lines 77-78 and 87-88: get(timeout=0.5) hands over the head of the queue,
\* or times out on an empty queue and the loop continues.
process_queue_get ==
    /\ workerPc = "get"
    /\ IF queue # <<>>
       THEN /\ batch' = <<Head(queue)>>
            /\ queue' = Tail(queue)
            /\ workerPc' = "fill"
       ELSE /\ workerPc' = "loop"
            /\ UNCHANGED <<batch, queue>>
    /\ pendingAtGet' = Len(queue)
    /\ UNCHANGED <<reqVars, fileVars, jsonVars, warnVars, cntVars, handlerVars, unfinished, shutdown_event, total_logs,
                   failed_logs, bi, ei, regVars, prodVars, shutPc, histVars>>

\* The inner loop with batch.insert(0, ...): the newest item goes first.
process_queue_fill_insert ==
    /\ workerPc = "fill"
    /\ IF Len(batch) < MaxBatch /\ queue # <<>>
       THEN /\ batch' = <<Head(queue)>> \o batch
            /\ queue' = Tail(queue)
            /\ UNCHANGED <<workerPc, pendingAtGet>>
       ELSE /\ workerPc' = "write"
            /\ pendingAtGet' = 0
            /\ UNCHANGED <<batch, queue>>
    /\ UNCHANGED <<reqVars, fileVars, jsonVars, warnVars, cntVars, handlerVars, unfinished, shutdown_event, total_logs,
                   failed_logs, bi, ei, regVars, prodVars, shutPc, histVars>>

\* The inner loop with "while len(batch) <= 100": the cap counts the
\* additional items only.
process_queue_fill_additional ==
    /\ workerPc = "fill"
    /\ IF Len(batch) <= MaxBatch /\ queue # <<>>
       THEN /\ batch' = Append(batch, Head(queue))
            /\ queue' = Tail(queue)
            /\ UNCHANGED <<workerPc, pendingAtGet>>
       ELSE /\ workerPc' = "write"
            /\ pendingAtGet' = 0
            /\ UNCHANGED <<batch, queue>>
    /\ UNCHANGED <<reqVars, fileVars, jsonVars, warnVars, cntVars, handlerVars, unfinished, shutdown_event, total_logs,
                   failed_logs, bi, ei, regVars, prodVars, shutPc, histVars>>

\* Lines 81-85: one turn of the inner loop; get_nowait either yields the
\* next item or raises Empty, which ends the batch, as does the cap.
process_queue_fill ==
    /\ workerPc = "fill"
    /\ IF Len(batch) < MaxBatch /\ queue # <<>>
       THEN /\ batch' = Append(batch, Head(queue))
            /\ queue' = Tail(queue)
            /\ UNCHANGED <<workerPc, pendingAtGet>>
       ELSE /\ workerPc' = "write"
            /\ pendingAtGet' = 0
            /\ UNCHANGED <<batch, queue>>
    /\ UNCHANGED <<reqVars, fileVars, jsonVars, warnVars, cntVars, handlerVars, unfinished, shutdown_event, total_logs,
                   failed_logs, bi, ei, regVars, prodVars, shutPc, histVars>>

\* Lines 94-95: task_done for every item of the batch, back to the loop test.
\* The handler of lines 97-101 has no step of its own: _write_batch catches
\* every Exception itself (lines 118 and 125) and task_done runs once per
\* item taken, so nothing inside the outer try raises. The elapsed time of
\* lines 108 and 130-132 is not part of the state.
process_queue_task_done ==
    /\ workerPc = "task_done"
    /\ unfinished' = unfinished - Len(batch)
    /\ batch' = <<>>
    /\ workerPc' = "loop"
    /\ UNCHANGED <<reqVars, fileVars, jsonVars, warnVars, batchVars, cntVars, handlerVars, queue, shutdown_event, total_logs, failed_logs,
                   bi, ei, regVars, prodVars, shutPc, histVars>>

\* ------------------------------------------------------------------ sinks
\* What a call of write can do, by class: FileBackend.write returns True or
\* catches its failure and returns False; a registered sink class (the
\* abstract LogBackend.write) returns True or raises.
Outcomes(kind) == IF kind = "file" THEN {"ok", "false"} ELSE {"ok", "raise"}

\* FileBackend.write whose except branch forgets the failure counter.
FileBackend_write_uncounted(sink, e, outcome) ==
    IF outcome = "ok"
    THEN [sink EXCEPT !.calls = Append(@, e), !.lines = Append(@, e),
                      !.total_writes = @ + 1]
    ELSE [sink EXCEPT !.calls = Append(@, e)]

\* FileBackend.write with the success counter raised before the file is
\* written: a failing call counts on both sides.
FileBackend_write_early_count(sink, e, outcome) ==
    IF outcome = "ok"
    THEN [sink EXCEPT !.calls = Append(@, e), !.lines = Append(@, e),
                      !.total_writes = @ + 1]
    ELSE [sink EXCEPT !.calls = Append(@, e), !.total_writes = @ + 1,
                      !.failed_writes = @ + 1]

\* FileBackend.write, lines 41-81.
FileBackend_write(sink, e, outcome) ==
    IF outcome = "ok"
    THEN [sink EXCEPT !.calls = Append(@, e), !.lines = Append(@, e),
                      !.total_writes = @ + 1]
    ELSE [sink EXCEPT !.calls = Append(@, e), !.failed_writes = @ + 1]

\* LogBackend.write of a registered sink class, base.py lines 25-40.
LogBackend_write(sink, e, outcome) ==
    IF outcome = "ok"
    THEN [sink EXCEPT !.calls = Append(@, e), !.lines = Append(@, e)]
    ELSE [sink EXCEPT !.calls = Append(@, e)]

backend_write(sink, e, outcome) ==
    IF sink.kind = "file"
    THEN FileBackend_write(sink, e, outcome)
    ELSE LogBackend_write(sink, e, outcome)

\* ------------------------------------------------------------ registry.py
\* register_backend, lines 27-38, for the one sink class outside the
\* repository.
register_backend ==
    /\ "dd" \notin registry
    /\ registry' = registry \cup {"dd"}
    /\ UNCHANGED <<reqVars, fileVars, jsonVars, warnVars, batchVars, cntVars, handlerVars, dispVars, config, active, backends_initialized,
                   regPc, regIdx, prodVars, shutPc, histVars>>

\* get_active_backends with get_env("LOG_BACKENDS", "") in line 49: an unset
\* variable yields no known identifier and the fallback of line 75 is next.
get_active_backends_get_env(c) ==
    /\ regPc[c] = "call"
    /\ regPc' = [regPc EXCEPT ![c] =
                   IF backends_initialized THEN "ret"
                   ELSE IF config = <<>> THEN "fallback" ELSE "loop"]
    /\ regIdx' = [regIdx EXCEPT ![c] = 1]
    /\ UNCHANGED <<reqVars, fileVars, jsonVars, warnVars, batchVars, cntVars, handlerVars, dispVars, config, registry, active,
                   backends_initialized, prodVars, shutPc, histVars>>

\* get_active_backends line 90, _initialize_backends lines 45-50: return the
\* list when initialized; else require_env raises on a missing or empty
\* LOG_BACKENDS (env_config.py lines 18-20), or the loop starts.
get_active_backends(c) ==
    /\ regPc[c] = "call"
    /\ regPc' = [regPc EXCEPT ![c] =
                   IF backends_initialized THEN "ret"
                   ELSE IF config = <<>> THEN "raised" ELSE "loop"]
    /\ regIdx' = [regIdx EXCEPT ![c] = 1]
    /\ UNCHANGED <<reqVars, fileVars, jsonVars, warnVars, batchVars, cntVars, handlerVars, dispVars, config, registry, active,
                   backends_initialized, prodVars, shutPc, histVars>>

\* _initialize_backends, lines 52-73: one turn of the loop. An unknown
\* identifier is skipped; a known one is constructed and appended, or its
\* constructor raises and the failure is caught.
initialize_backends_loop(c) ==
    /\ regPc[c] = "loop"
    /\ LET i == regIdx[c]
           name == config[i]
       IN  /\ IF name \notin registry
              THEN UNCHANGED <<active, usable, instCount, faults>>
              ELSE \E built \in BOOLEAN :
                     IF built
                     THEN /\ active' = Append(active, NewSink(name, i, c))
                          /\ usable' = usable \cup {i}
                          /\ instCount' = [instCount EXCEPT ![i] = @ + 1]
                          /\ UNCHANGED faults
                     ELSE /\ faults < MaxFaults
                          /\ faults' = faults + 1
                          /\ UNCHANGED <<active, usable, instCount>>
           /\ regIdx' = [regIdx EXCEPT ![c] = i + 1]
           /\ regPc' = [regPc EXCEPT ![c] =
                          IF i = Len(config) THEN "fallback" ELSE "loop"]
    /\ UNCHANGED <<reqVars, fileVars, jsonVars, warnVars, batchVars, cntVars, handlerVars, dispVars, config, registry,
                   backends_initialized, prodVars, shutPc, atShutdown,
                   entryMetrics, errSeen>>

\* _initialize_backends, line 75: the test for the fallback.
initialize_backends_test(c) ==
    /\ regPc[c] = "fallback"
    /\ regPc' = [regPc EXCEPT ![c] = IF active = <<>> THEN "fbctor" ELSE "mark"]
    /\ UNCHANGED <<reqVars, fileVars, jsonVars, warnVars, batchVars, cntVars, handlerVars, dispVars, config, registry, active,
                   backends_initialized, regIdx, prodVars, shutPc, histVars>>

\* _initialize_backends, lines 77-78: the fallback file sink; its
\* constructor is not guarded, so a failure leaves _initialize_backends.
initialize_backends_fallback(c) ==
    /\ regPc[c] = "fbctor"
    /\ \E built \in BOOLEAN :
         IF built
         THEN /\ active' = Append(active, NewSink("file", 0, c))
              /\ instCount' = [instCount EXCEPT ![0] = @ + 1]
              /\ regPc' = [regPc EXCEPT ![c] = "mark"]
              /\ UNCHANGED faults
         ELSE /\ faults < MaxFaults
              /\ faults' = faults + 1
              /\ regPc' = [regPc EXCEPT ![c] = "raised"]
              /\ UNCHANGED <<active, instCount>>
    /\ UNCHANGED <<reqVars, fileVars, jsonVars, warnVars, batchVars, cntVars, handlerVars, dispVars, config, registry,
                   backends_initialized, regIdx, prodVars, shutPc, atShutdown,
                   usable, entryMetrics, errSeen>>

\* _initialize_backends, line 80.
initialize_backends_mark(c) ==
    /\ regPc[c] = "mark"
    /\ backends_initialized' = TRUE
    /\ regPc' = [regPc EXCEPT ![c] = "ret"]
    /\ UNCHANGED <<reqVars, fileVars, jsonVars, warnVars, batchVars, cntVars, handlerVars, dispVars, config, registry, active, regIdx,
                   prodVars, shutPc, histVars>>

\* main.py lines 157-167: the /metrics handler calls get_all_metrics
\* (registry.py line 119), which calls get_active_backends.
metrics_call ==
    /\ ModuleLoaded
    /\ regPc["metrics"] = "idle"
    /\ regPc' = [regPc EXCEPT !["metrics"] = "call"]
    /\ UNCHANGED <<reqVars, fileVars, jsonVars, warnVars, batchVars, cntVars, handlerVars, dispVars, config, registry, active,
                   backends_initialized, regIdx, prodVars, shutPc, histVars>>

\* get_all_metrics returns the per-sink metrics, or the exception of
\* get_active_backends leaves the handler.
metrics_return ==
    /\ regPc["metrics"] \in {"ret", "raised"}
    /\ regPc' = [regPc EXCEPT !["metrics"] = "idle"]
    /\ UNCHANGED <<reqVars, fileVars, jsonVars, warnVars, batchVars, cntVars, handlerVars, dispVars, config, registry, active,
                   backends_initialized, regIdx, prodVars, shutPc, histVars>>

\* ----------------------------------------------------------- _write_batch
\* Lines 105-111: the batch is not empty, so _write_batch asks the registry
\* for the sinks.
write_batch_begin ==
    /\ workerPc = "write"
    /\ regPc["worker"] = "idle"
    /\ workerPc' = "backends"
    /\ regPc' = [regPc EXCEPT !["worker"] = "call"]
    /\ UNCHANGED <<reqVars, fileVars, jsonVars, warnVars, batchVars, cntVars, handlerVars, queue, unfinished, shutdown_event, total_logs,
                   failed_logs, batch, bi, ei, config, registry, active,
                   backends_initialized, regIdx, prodVars, shutPc, histVars>>

\* Line 111 returned the list: the loops of lines 114-115 start.
write_batch_sinks ==
    /\ workerPc = "backends"
    /\ regPc["worker"] = "ret"
    /\ workerPc' = "writing"
    /\ bi' = 1
    /\ ei' = 1
    /\ regPc' = [regPc EXCEPT !["worker"] = "idle"]
    /\ UNCHANGED <<reqVars, fileVars, jsonVars, warnVars, batchVars, cntVars, handlerVars, queue, unfinished, shutdown_event, total_logs,
                   failed_logs, batch, config, registry, active,
                   backends_initialized, regIdx, prodVars, shutPc, histVars>>

\* The except branch of _write_batch with the exception raised again.
write_batch_failed_reraise ==
    /\ workerPc = "backends"
    /\ regPc["worker"] = "raised"
    /\ failed_logs' = failed_logs + Len(batch)
    /\ errSeen' = TRUE
    /\ workerPc' = "exited"
    /\ regPc' = [regPc EXCEPT !["worker"] = "idle"]
    /\ UNCHANGED <<reqVars, fileVars, jsonVars, warnVars, batchVars, cntVars, handlerVars, queue, unfinished, shutdown_event, total_logs,
                   batch, bi, ei, config, registry, active,
                   backends_initialized, regIdx, prodVars, shutPc, atShutdown,
                   usable, instCount, entryMetrics, faults>>

\* Lines 125-129: get_active_backends raised; the whole batch is counted as
\* failed and _write_batch returns normally.
write_batch_failed ==
    /\ workerPc = "backends"
    /\ regPc["worker"] = "raised"
    /\ failed_logs' = failed_logs + Len(batch)
    /\ errSeen' = TRUE
    /\ workerPc' = "task_done"
    /\ regPc' = [regPc EXCEPT !["worker"] = "idle"]
    /\ UNCHANGED <<reqVars, fileVars, jsonVars, warnVars, batchVars, cntVars, handlerVars, queue, unfinished, shutdown_event, total_logs,
                   batch, bi, ei, config, registry, active,
                   backends_initialized, regIdx, prodVars, shutPc, atShutdown,
                   usable, instCount, entryMetrics, faults>>

\* Line 129, first half: "self._failed_logs += len(batch)" loads the
\* attribute; the call of len comes between the load and the store.
write_batch_failed_load ==
    /\ workerPc = "backends"
    /\ regPc["worker"] = "raised"
    /\ rmw[ConsumerThread].pc = "idle"
    /\ rmw' = [rmw EXCEPT ![ConsumerThread].pc = "store",
                          ![ConsumerThread].loaded = failed_logs]
    /\ UNCHANGED <<reqVars, fileVars, jsonVars, warnVars, batchVars, handlerVars, dispVars, regVars, prodVars, shutPc,
                   histVars, dropped, failedCounted>>

\* Line 129, second half: the sum is stored and _write_batch returns.
write_batch_failed_store ==
    /\ workerPc = "backends"
    /\ rmw[ConsumerThread].pc = "store"
    /\ failed_logs' = rmw[ConsumerThread].loaded + Len(batch)
    /\ failedCounted' = failedCounted + Len(batch)
    /\ errSeen' = TRUE
    /\ workerPc' = "task_done"
    /\ regPc' = [regPc EXCEPT !["worker"] = "idle"]
    /\ rmw' = [rmw EXCEPT ![ConsumerThread] =
                  [pc |-> "idle", loaded |-> 0, entry |-> 0]]
    /\ UNCHANGED <<reqVars, fileVars, jsonVars, warnVars, batchVars, handlerVars, queue, unfinished, shutdown_event, total_logs,
                   batch, bi, ei, config, registry, active,
                   backends_initialized, regIdx, prodVars, shutPc, atShutdown,
                   usable, instCount, entryMetrics, faults, dropped>>

\* The loops of lines 114-121 with the try around the inner loop instead of
\* inside it: an exception ends the sink's turn.
NextWritePos_break(outcome, b, e, n) ==
    IF e < n /\ outcome # "raise" THEN <<b, e + 1>> ELSE <<b + 1, 1>>

\* Lines 114-121: where the loops stand after one write on sink b of entry
\* number e of a batch of n entries; an exception is caught inside the
\* inner loop, so every outcome moves on in the same way.
NextWritePos(outcome, b, e, n) ==
    IF e < n THEN <<b, e + 1>> ELSE <<b + 1, 1>>

\* Lines 114-121: one call of backend.write(entry). The for loop reads the
\* shared list by index, so a sink appended meanwhile is visited too.
write_batch_entry ==
    /\ workerPc = "writing"
    /\ bi <= Len(active)
    /\ \E outcome \in Outcomes(active[bi].kind) :
         LET sink == active[bi]
             e == batch[ei]
             after == backend_write(sink, e, outcome)
             pos == NextWritePos(outcome, bi, ei, Len(batch))
         IN  /\ outcome # "ok" => faults < MaxFaults
             /\ faults' = IF outcome = "ok" THEN faults ELSE faults + 1
             /\ active' = [active EXCEPT ![bi] = after]
             /\ entryMetrics' = [entryMetrics EXCEPT ![e] =
                   [succ |-> @.succ + (after.total_writes - sink.total_writes),
                    fail |-> @.fail + (after.failed_writes - sink.failed_writes)]]
             /\ errSeen' = (errSeen \/ outcome = "raise")
             /\ bi' = pos[1]
             /\ ei' = pos[2]
    /\ UNCHANGED <<reqVars, fileVars, jsonVars, warnVars, batchVars, cntVars, handlerVars, queue, unfinished, shutdown_event, total_logs,
                   failed_logs, workerPc, batch, config, registry,
                   backends_initialized, regPc, regIdx, prodVars, shutPc,
                   atShutdown, usable, instCount>>

\* Line 123 reached only when no write raised: a batch with a raising sink
\* is not counted.
write_batch_done_clean_only ==
    /\ workerPc = "writing"
    /\ bi > Len(active)
    /\ total_logs' = IF errSeen THEN total_logs ELSE total_logs + Len(batch)
    /\ workerPc' = "task_done"
    /\ UNCHANGED <<reqVars, fileVars, jsonVars, warnVars, batchVars, cntVars, handlerVars, queue, unfinished, shutdown_event, failed_logs,
                   batch, bi, ei, regVars, prodVars, shutPc, histVars>>

\* Line 123: the outer loop found no further sink; the batch is counted.
write_batch_done ==
    /\ workerPc = "writing"
    /\ bi > Len(active)
    /\ total_logs' = total_logs + Len(batch)
    /\ workerPc' = "task_done"
    /\ UNCHANGED <<reqVars, fileVars, jsonVars, warnVars, batchVars, cntVars, handlerVars, queue, unfinished, shutdown_event, failed_logs,
                   batch, bi, ei, regVars, prodVars, shutPc, histVars>>

\* --------------------------------------------------------------- shutdown
\* Line 175: the event is set.
shutdown_signal ==
    /\ ModuleLoaded
    /\ shutPc = "idle"
    /\ shutdown_event' = TRUE
    /\ atShutdown' = Range(queue)
    /\ shutPc' = "join"
    /\ UNCHANGED <<reqVars, fileVars, jsonVars, warnVars, batchVars, cntVars, handlerVars, queue, unfinished, total_logs, failed_logs,
                   workerPc, batch, bi, ei, regVars, prodVars, usable,
                   instCount, entryMetrics, errSeen, faults>>

\* Lines 178-181: Queue.join() returns once unfinished_tasks is zero; it
\* takes no timeout.
shutdown_join_queue ==
    /\ shutPc = "join"
    /\ unfinished = 0
    /\ shutPc' = "join_worker"
    /\ UNCHANGED <<reqVars, fileVars, jsonVars, warnVars, batchVars, cntVars, handlerVars, dispVars, regVars, prodVars, histVars>>

\* Lines 184-187: the worker is joined for at most timeout seconds, then
\* shutdown returns whether or not it has ended.
shutdown_join_worker ==
    /\ shutPc = "join_worker"
    /\ shutPc' = "returned"
    /\ UNCHANGED <<reqVars, fileVars, jsonVars, warnVars, batchVars, cntVars, handlerVars, dispVars, regVars, prodVars, histVars>>

\* get_metrics, lines 155-165.
get_metrics ==
    [total_logs |-> total_logs, failed_logs |-> failed_logs,
     queue_size |-> Len(queue),
     worker_alive |-> workerPc \notin {"none", "exited"}]

\* ---------------------------------------------------------- RequestTimer
\* capture with the bucket assigned instead of added to.
capture_release_overwrite(d, name, start, now) ==
    DictSet(d, name, now - start)

\* RequestTimer.capture, lines 13-15: what follows the yield when the
\* wrapped work returns. start is the reading of line 11, now the reading
\* of line 13. When the wrapped work raises, the exception enters the
\* generator at the yield of line 12, which no try guards, and nothing of
\* lines 13-15 runs.
capture_release(d, name, start, now) ==
    DictSet(d, name, DictGet(d, name, 0) + (now - start))

\* RequestTimer.format_server_timing with the total appended by dispatch,
\* line 159: the pairs name;dur of the buckets and the total.
format_server_timing(d, total) == [spans |-> d, total |-> total]

\* ------------------------------------------------ request_timer_context_var
\* A module-level global in place of the ContextVar: one value for every
\* task.
ContextVar_set_shared(c, r, v) == [x \in DOMAIN c |-> v]

\* ContextVar.set in the context of the task of request r; the token keeps
\* the value replaced, and ContextVar.reset puts it back.
ContextVar_set(c, r, v) == [c EXCEPT ![r] = v]
ContextVar_reset(c, r, token) == [c EXCEPT ![r] = token]

\* ----------------------------------------------------- middleware_types.py
\* is_slow read against the slow_query_threshold of the middleware.
is_slow_by_config(md) == md.duration_ms > mw.slow_query_threshold

\* RequestLogEntry.is_slow and is_error, lines 95-105, on the metadata.
is_slow(md) == md.duration_ms > SlowRequestMs
is_error(md) == md.status_code >= 500

\* RequestLoggingMiddleware._log_request, lines 246-256: the method of the
\* logger that is called and its message.
log_request(md) ==
    IF is_error(md)
    THEN [level |-> "error", msg |-> "Request failed with server error"]
    ELSE IF is_slow(md)
    THEN [level |-> "warning", msg |-> "Slow request detected"]
    ELSE IF md.status_code >= 400
    THEN [level |-> "warning", msg |-> "Request failed with client error"]
    ELSE [level |-> "info", msg |-> "Request completed"]

\* RequestLoggingMiddleware._build_log_entry, lines 184-229: the metadata,
\* the details (None, here the empty dict, unless log_details is set) and
\* the breakdown. The clock counts whole milliseconds, which round(x, 2)
\* of line 199 leaves as they are.
build_log_entry(r, duration_ms) ==
    [metadata |-> [status_code |-> req[r].status_code,
                   duration_ms |-> duration_ms],
     details |-> IF mw.log_details
                 THEN DictSet(EmptyDict, "request_id", req[r].request_id)
                 ELSE EmptyDict,
     performance |-> req[r].perf_data]

\* ------------------------------------------------ RequestLoggingMiddleware
\* str(uuid.uuid4()), line 132: a fresh value for every request.
uuid4(r) == "uuid-" \o ToString(r)

\* The lines 139-152 of dispatch, its finally block: the total so far, the
\* breakdown read from the timer d of this request (absent buckets read 0),
\* and the reset of the context variable.
PerformanceBreakdown(d, total) ==
    [total_ms |-> total,
     app_logic_ms |-> DictGet(d, "app", 0),
     db_session_total_ms |-> DictGet(d, "db", 0),
     sql_execution_total_ms |-> DictGet(d, "sql", 0),
     query_count |-> DictGet(d, "query_count", 0)]

\* Line 165 with True as the default of the getattr.
expose_timing_default_on(r) == TRUE

\* Lines 165-167: the toggle of the process or the attribute that
\* enable_perf_headers sets on request.state, False when it is missing.
expose_timing(r) == mw.expose_performance_headers \/ req[r].expose_perf

\* app.add_middleware(RequestLoggingMiddleware, ...), main.py lines 72-76,
\* and __init__, lines 77-110; logger.py is imported first, and with it
\* persistence.py.
Middleware_init(expose, details, threshold) ==
    /\ ModuleLoaded
    /\ ~mw.made
    /\ mw' = [made |-> TRUE, expose_performance_headers |-> expose,
              log_details |-> details, slow_query_threshold |-> threshold]
    /\ UNCHANGED <<fileVars, jsonVars, warnVars, batchVars, cntVars, handlerVars, dispVars, regVars, shutPc, histVars, prodVars, clock, req, timings, ctx, hctx,
                   log_calls, timing_calls>>

\* time.perf_counter() advances between two steps. Only differences of
\* readings are used, so the clock is followed from the first reading of a
\* dispatch to its last.
Tick(d) ==
    /\ \E r \in Requests : req[r].pc \in {"OPEN", "IN_FLIGHT", "CLOSED"}
    /\ clock + d <= MaxTicks * SlowRequestMs
    /\ clock' = clock + d
    /\ UNCHANGED <<fileVars, jsonVars, warnVars, batchVars, cntVars, handlerVars, dispVars, regVars, shutPc, histVars, prodVars, mw, req, timings, ctx, hctx,
                   log_calls, timing_calls>>

\* dispatch, lines 127-133, for a request with the headers h: a timer of
\* its own, the context variable set to it, the start reading, the request
\* ID from the header unless that is missing or empty.
dispatch_open(r, h) ==
    /\ mw.made
    /\ req[r].pc = "idle"
    /\ timings' = [timings EXCEPT ![r] = EmptyDict]
    /\ ctx' = ContextVar_set(ctx, r, r)
    /\ req' = [req EXCEPT ![r] =
          [@ EXCEPT !.pc = "OPEN",
                    !.headers = h,
                    !.token = ctx[r],
                    !.start_time = clock,
                    !.request_id =
                        IF DictGet(h, "X-Request-ID", "") # ""
                        THEN h["X-Request-ID"] ELSE uuid4(r)]]
    /\ UNCHANGED <<fileVars, jsonVars, warnVars, batchVars, cntVars, handlerVars, dispVars, regVars, shutPc, histVars, prodVars, mw, clock, hctx, log_calls,
                   timing_calls>>

\* Lines 136-138: the "app" span is opened and call_next starts the
\* downstream application in a task whose context is a copy of this one.
dispatch_call_next(r) ==
    /\ req[r].pc = "OPEN"
    /\ hctx' = [hctx EXCEPT ![r] = ctx[r]]
    /\ req' = [req EXCEPT ![r] =
          [@ EXCEPT !.pc = "IN_FLIGHT", !.app_start = clock]]
    /\ UNCHANGED <<fileVars, jsonVars, warnVars, batchVars, cntVars, handlerVars, dispVars, regVars, shutPc, histVars, prodVars, mw, clock, timings, ctx, log_calls,
                   timing_calls>>

\* A collaborator of the handler opens a sub-span on the timer it finds in
\* request_timer_context_var: capture, line 11.
handler_capture_enter(r, name) ==
    /\ req[r].pc = "IN_FLIGHT"
    /\ hctx[r] # NoTimer
    /\ req[r].opened < MaxSpans
    /\ req' = [req EXCEPT ![r] =
          [@ EXCEPT !.opened = @ + 1,
                    !.spans = Append(@, [timer |-> hctx[r], name |-> name,
                                         start |-> clock])]]
    /\ UNCHANGED <<fileVars, jsonVars, warnVars, batchVars, cntVars, handlerVars, dispVars, regVars, shutPc, histVars, prodVars, mw, clock, timings, ctx, hctx,
                   log_calls, timing_calls>>

\* The work wrapped by the innermost open sub-span returns: capture, lines
\* 13-15.
handler_capture_exit(r) ==
    /\ req[r].pc = "IN_FLIGHT"
    /\ req[r].spans # <<>>
    /\ LET n == Len(req[r].spans)
           sp == req[r].spans[n]
       IN  /\ timings' = [timings EXCEPT ![sp.timer] =
                    capture_release(@, sp.name, sp.start, clock)]
           /\ req' = [req EXCEPT ![r] =
                 [@ EXCEPT !.spans = SubSeq(@, 1, n - 1),
                           !.completed = Append(@,
                               [timer |-> sp.timer, name |-> sp.name,
                                duration |-> clock - sp.start])]]
    /\ UNCHANGED <<fileVars, jsonVars, warnVars, batchVars, cntVars, handlerVars, dispVars, regVars, shutPc, histVars, prodVars, mw, clock, ctx, hctx, log_calls,
                   timing_calls>>

\* The work wrapped by the innermost open sub-span raises and the handler
\* catches the exception outside the with block: the span is left without
\* lines 13-15.
handler_capture_abort(r) ==
    /\ req[r].pc = "IN_FLIGHT"
    /\ req[r].spans # <<>>
    /\ req' = [req EXCEPT ![r] =
          [@ EXCEPT !.spans = SubSeq(@, 1, Len(@) - 1)]]
    /\ UNCHANGED <<fileVars, jsonVars, warnVars, batchVars, cntVars, handlerVars, dispVars, regVars, shutPc, histVars, prodVars, mw, clock, timings, ctx, hctx,
                   log_calls, timing_calls>>

\* enable_perf_headers, line 305, as a dependency of the route.
enable_perf_headers(r) ==
    /\ req[r].pc = "IN_FLIGHT"
    /\ ~req[r].expose_perf
    /\ req' = [req EXCEPT ![r] = [@ EXCEPT !.expose_perf = TRUE]]
    /\ UNCHANGED <<fileVars, jsonVars, warnVars, batchVars, cntVars, handlerVars, dispVars, regVars, shutPc, histVars, prodVars, mw, clock, timings, ctx, hctx,
                   log_calls, timing_calls>>

\* call_next returns a response with the given status: the "app" span is
\* released (capture, lines 13-15) and the finally block runs.
handler_return(r, status) ==
    /\ req[r].pc = "IN_FLIGHT"
    /\ req[r].spans = <<>>
    /\ LET d == capture_release(timings[r], "app", req[r].app_start, clock)
       IN  /\ timings' = [timings EXCEPT ![r] = d]
           /\ req' = [req EXCEPT ![r] =
                 [@ EXCEPT !.pc = "CLOSED",
                           !.status_code = status,
                           !.completed = Append(@,
                               [timer |-> r, name |-> "app",
                                duration |-> clock - req[r].app_start]),
                           !.perf_data = PerformanceBreakdown(
                               d, clock - req[r].start_time)]]
    /\ ctx' = ContextVar_reset(ctx, r, req[r].token)
    /\ UNCHANGED <<fileVars, jsonVars, warnVars, batchVars, cntVars, handlerVars, dispVars, regVars, shutPc, histVars, prodVars, mw, clock, hctx, log_calls,
                   timing_calls>>

\* call_next raises, with whatever sub-spans are open: no span is released,
\* the "app" span included, and the finally block runs with the exception
\* pending.
handler_raise(r) ==
    /\ req[r].pc = "IN_FLIGHT"
    /\ req' = [req EXCEPT ![r] =
          [@ EXCEPT !.pc = "CLOSED",
                    !.exc = TRUE,
                    !.spans = <<>>,
                    !.perf_data = PerformanceBreakdown(
                        timings[r], clock - req[r].start_time)]]
    /\ ctx' = ContextVar_reset(ctx, r, req[r].token)
    /\ UNCHANGED <<fileVars, jsonVars, warnVars, batchVars, cntVars, handlerVars, dispVars, regVars, shutPc, histVars, prodVars, mw, clock, timings, hctx, log_calls,
                   timing_calls>>

\* The finally block is left with the exception pending: dispatch raises it
\* and lines 154-182 do not run.
dispatch_reraise(r) ==
    /\ req[r].pc = "CLOSED"
    /\ req[r].exc
    /\ req' = [req EXCEPT ![r] = [@ EXCEPT !.pc = "RAISED"]]
    /\ UNCHANGED <<fileVars, jsonVars, warnVars, batchVars, cntVars, handlerVars, dispVars, regVars, shutPc, histVars, prodVars, mw, clock, timings, ctx, hctx,
                   log_calls, timing_calls>>

\* persist_log, persistence.py lines 194-207, and with it enqueue_log,
\* lines 134-153, for the entry numbered e.
persist_log(e) ==
    LET r == put_nowait(queue, e) IN
        /\ queue' = r.q
        /\ unfinished' = IF r.full THEN unfinished ELSE unfinished + 1
        /\ failed_logs' = IF r.full THEN failed_logs + 1 ELSE failed_logs
        /\ lastEnqueue' = [id |-> e, result |-> ~r.full]

\* Lines 154-182 after a response: the headers, the entry, and the one call
\* on the logger (_log_request, then AppLogger._log_with_persistence,
\* logger.py lines 103-139). console tells whether the structlog call of
\* logger.py line 117 returns ("ok") or raises ("raise"): nothing catches
\* what it raises, the finally of line 130 only records the timing, and
\* dispatch ends with that exception. require_env of middleware_types.py
\* line 119 finds SLOW_QUERY_THRESHOLD, without which main.py lines 16-23
\* and app_config.py line 200 end the process at start-up.
dispatch_finish(r, console) ==
    /\ req[r].pc = "CLOSED"
    /\ ~req[r].exc
    /\ LET duration_ms == clock - req[r].start_time
           timing_header == format_server_timing(timings[r], duration_ms)
           h1 == DictSet(req[r].response_headers, "X-Request-ID",
                         req[r].request_id)
           h2 == IF expose_timing(r)
                 THEN DictSet(h1, "Server-Timing", timing_header)
                 ELSE h1
           log_entry == build_log_entry(r, duration_ms)
           call == log_request(log_entry.metadata)
       IN  /\ req' = [req EXCEPT ![r] =
                 [@ EXCEPT !.pc = IF console = "ok" THEN "DISPATCHED"
                                  ELSE "RAISED",
                           !.response_headers = h2]]
           /\ log_calls' = [log_calls EXCEPT ![r] =
                 Append(@, [level |-> call.level, msg |-> call.msg,
                            entry |-> log_entry, console |-> console])]
    /\ IF console = "ok"
       THEN persist_log(nextId) /\ nextId' = nextId + 1
       ELSE UNCHANGED <<queue, unfinished, failed_logs, lastEnqueue, nextId>>
    /\ timing_calls' = timing_calls + 1
    /\ UNCHANGED <<handlerVars, shutdown_event, total_logs, workerPc, batch,
                   bi, ei, regVars, shutPc, histVars, mw, clock, timings,
                   ctx, hctx, fileVars, jsonVars, warnVars, batchVars, cntVars>>

\* ---------------------------------------------------------- weekly files
\* get_week_date_range(target_date), get_date_range.py lines 23-27.
get_week_date_range(target_date) ==
    LET week_start == target_date - weekday(target_date)
    IN  [week_start |-> week_start, week_end |-> week_start + 6,
         week_number |-> isocalendar_week(target_date)]

\* FileBackend._get_filename, lines 83-86: the name
\* wk<week_number>_<week_start>--<week_end>.json as the tuple of its parts.
get_filename(log_date) ==
    LET w == get_week_date_range(log_date)
    IN  <<w.week_number, isoformat(w.week_start), isoformat(w.week_end)>>

\* AppLogger._log_with_persistence with persist=True, logger.py lines
\* 119-128: the entry is the dict of "timestamp" (datetime.now(), of which
\* the date is kept) overlaid with the caller's keyword arguments.
\* persist_log and the dispatcher carry the entry to the consumer thread
\* unchanged; pending holds it until the sink is called.
log_with_persistence(kwargs) ==
    /\ Len(pending) + Len(file_sink.calls) < MaxLines
    /\ LET log_entry == [k \in {"timestamp"} \cup DOMAIN kwargs |->
                            IF k \in DOMAIN kwargs THEN kwargs[k]
                            ELSE isoformat(today)]
       IN  pending' = Append(pending, log_entry)
    /\ UNCHANGED <<handlerVars, dispVars, regVars, prodVars, shutPc,
                   histVars, reqVars, jsonVars, warnVars, batchVars, cntVars, today, file_sink, files>>

\* Midnight: date.today() moves to the next day.
DayPasses ==
    /\ today < fromisoformat(FirstDay) + MaxDays
    /\ today' = today + 1
    /\ UNCHANGED <<handlerVars, dispVars, regVars, prodVars, shutPc,
                   histVars, reqVars, jsonVars, warnVars, batchVars, cntVars, pending, file_sink, files>>

\* FileBackend.write(log_entry) on the consumer thread, lines 41-81: io is
\* whether opening and appending to the file works. A "date" that is no
\* date makes fromisoformat raise, which the except branch counts.
FileBackend_write_call(io) ==
    /\ pending # <<>>
    /\ LET log_entry == Head(pending)
           log_date_str == DictGet(log_entry, "date", isoformat(today))
           ok == is_date(log_date_str) /\ io = "ok"
           name == get_filename(fromisoformat(log_date_str))
       IN  /\ files' = IF ok
                       THEN DictSet(files, name,
                                    Append(DictGet(files, name, <<>>),
                                           log_entry))
                       ELSE files
           /\ file_sink' = FileBackend_write(file_sink, log_entry,
                                             IF ok THEN "ok" ELSE "false")
    /\ pending' = Tail(pending)
    /\ UNCHANGED <<handlerVars, dispVars, regVars, prodVars, shutPc,
                   histVars, reqVars, jsonVars, warnVars, batchVars, cntVars, today>>

\* ------------------------------------------------------------------ json
\* A text is the sequence of its characters. NL is the line feed.
NL == "\n"
DigitChars == <<"0", "1", "2", "3", "4", "5", "6", "7", "8", "9">>

\* A Python value as json sees it: t is its type, s the characters of a str,
\* n the number of an int, items the elements of a list or the values of a
\* dict, keys the keys of a dict in insertion order. "object" is a value of
\* a class json has no encoding for (a datetime, a set).
JValue(t, s, n, items, keys) ==
    [t |-> t, s |-> s, n |-> n, items |-> items, keys |-> keys]
JStr(s) == JValue("str", s, 0, <<>>, <<>>)
JInt(n) == JValue("int", <<>>, n, <<>>, <<>>)
JNull == JValue("null", <<>>, 0, <<>>, <<>>)
JTrue == JValue("true", <<>>, 0, <<>>, <<>>)
JFalse == JValue("false", <<>>, 0, <<>>, <<>>)
JList(items) == JValue("list", <<>>, 0, items, <<>>)
JDict(keys, items) == JValue("dict", <<>>, 0, items, keys)
JObject == JValue("object", <<>>, 0, <<>>, <<>>)

\* json.dumps would raise TypeError on v.
RECURSIVE encodable(_)
encodable(v) ==
    /\ v.t # "object"
    /\ \A i \in DOMAIN v.items : encodable(v.items[i])

\* The encoder's escape table with the line feed left as it is.
encode_char_raw(c) ==
    IF c = "\"" THEN <<"\\", "\"">>
    ELSE IF c = "\\" THEN <<"\\", "\\">>
    ELSE <<c>>

\* json.encoder's escape table (ensure_ascii=False), for the characters of
\* the model: quote, backslash and line feed are escaped.
encode_char(c) ==
    IF c = "\"" THEN <<"\\", "\"">>
    ELSE IF c = "\\" THEN <<"\\", "\\">>
    ELSE IF c = NL THEN <<"\\", "n">>
    ELSE <<c>>

RECURSIVE encode_chars(_)
encode_chars(s) ==
    IF s = <<>> THEN <<>> ELSE encode_char(Head(s)) \o encode_chars(Tail(s))

encode_string(s) == <<"\"">> \o encode_chars(s) \o <<"\"">>

RECURSIVE encode_digits(_)
encode_digits(n) ==
    IF n < 10 THEN <<DigitChars[n + 1]>>
    ELSE encode_digits(n \div 10) \o <<DigitChars[(n % 10) + 1]>>

encode_int(n) == IF n < 0 THEN <<"-">> \o encode_digits(-n) ELSE encode_digits(n)

\* json.dumps(v, ensure_ascii=False) of an encodable v, with the default
\* separators ", " and ": ".
RECURSIVE json_dumps(_)
RECURSIVE dumps_list(_)
RECURSIVE dumps_dict(_, _)
json_dumps(v) ==
    CASE v.t = "str" -> encode_string(v.s)
      [] v.t = "int" -> encode_int(v.n)
      [] v.t = "null" -> <<"n", "u", "l", "l">>
      [] v.t = "true" -> <<"t", "r", "u", "e">>
      [] v.t = "false" -> <<"f", "a", "l", "s", "e">>
      [] v.t = "list" -> <<"[">> \o dumps_list(v.items) \o <<"]">>
      [] v.t = "dict" -> <<"{">> \o dumps_dict(v.keys, v.items) \o <<"}">>

dumps_list(items) ==
    IF items = <<>> THEN <<>>
    ELSE json_dumps(Head(items)) \o
         (IF Tail(items) = <<>> THEN <<>>
          ELSE <<",", " ">> \o dumps_list(Tail(items)))

dumps_dict(keys, items) ==
    IF keys = <<>> THEN <<>>
    ELSE encode_string(Head(keys)) \o <<":", " ">> \o json_dumps(Head(items)) \o
         (IF Tail(keys) = <<>> THEN <<>>
          ELSE <<",", " ">> \o dumps_dict(Tail(keys), Tail(items)))

\* ------------------------------------------------------- write_to_file.py
\* write_log_entry(entry), lines 92-110, with write_to_file, lines 64-89,
\* under the default folder and file name: json.dumps raises TypeError on a
\* value it cannot encode, the payload is never empty, and io is whether
\* opening and appending works (OSError is raised again). On every failure
\* the call raises and has written nothing.
write_log_entry(entry, io) ==
    /\ Len(appended) + file_sink.failed_writes < MaxLines
    /\ IF encodable(entry) /\ json_dumps(entry) # <<>> /\ io = "ok"
       THEN /\ content' = content \o json_dumps(entry) \o <<NL>>
            /\ appended' = Append(appended, entry)
       ELSE UNCHANGED <<content, appended>>
    /\ UNCHANGED <<handlerVars, dispVars, regVars, prodVars, shutPc,
                   histVars, reqVars, fileVars, warnVars, batchVars, cntVars>>

\* FileBackend.write(log_entry), lines 41-81, for an entry without "date":
\* the file is the one of today's week, get_filename(today), the same file
\* write_to_file names by default. Every failure is caught and counted.
FileBackend_write_payload(log_entry, io) ==
    /\ Len(appended) + file_sink.failed_writes < MaxLines
    /\ LET ok == /\ is_date(isoformat(today))
                 /\ encodable(log_entry)
                 /\ io = "ok"
       IN  /\ IF ok
              THEN /\ content' = content \o json_dumps(log_entry) \o <<NL>>
                   /\ appended' = Append(appended, log_entry)
              ELSE UNCHANGED <<content, appended>>
           /\ file_sink' = FileBackend_write(file_sink, log_entry,
                                             IF ok THEN "ok" ELSE "false")
    /\ UNCHANGED <<handlerVars, dispVars, regVars, prodVars, shutPc,
                   histVars, reqVars, warnVars, batchVars, cntVars, today, pending, files>>

\* ---------------------------------------- RequestLogEntry computed fields
\* require_env(name), env_config.py lines 14-21: the value, or
\* ConfigurationError when the variable is missing.
require_env(name) ==
    IF name \in DOMAIN environ
    THEN [raised |-> FALSE, value |-> environ[name]]
    ELSE [raised |-> TRUE, value |-> 0]

\* PerformanceBreakdown.db_overhead_ms, lines 20-31.
db_overhead_ms(perf) == perf.db_session_total_ms - perf.sql_execution_total_ms

\* optimization_warnings with "if" in place of both "elif".
optimization_warnings_no_elif(e) ==
    IF DOMAIN e.performance = {} THEN [raised |-> FALSE, warns |-> <<>>]
    ELSE IF require_env("SLOW_QUERY_THRESHOLD").raised
    THEN [raised |-> TRUE, warns |-> <<>>]
    ELSE
    LET slow_query_threshold == require_env("SLOW_QUERY_THRESHOLD").value
        total_time == e.metadata.duration_ms
        db_time == e.performance.db_session_total_ms
        sql_time == e.performance.sql_execution_total_ms
        db_overhead == db_overhead_ms(e.performance)
        query_count == e.performance.query_count
        w1 == IF query_count > 10
              THEN << <<"N+1_QUERY_SUSPECTED", query_count>> >> ELSE <<>>
        w2 == IF query_count > 5
              THEN Append(w1, <<"HIGH_QUERY_COUNT", query_count>>) ELSE w1
        w3 == IF sql_time > slow_query_threshold
              THEN Append(w2, <<"SLOW_SQL", sql_time>>) ELSE w2
        w4 == IF sql_time > 100
              THEN Append(w3, <<"MODERATE_SQL", sql_time>>) ELSE w3
        w5 == IF /\ 2 * db_overhead > slow_query_threshold
                 /\ 10 * db_overhead > 3 * total_time
              THEN Append(w4, <<"HIGH_CONNECTION_OVERHEAD", db_overhead>>)
              ELSE w4
        w6 == IF /\ total_time > 50
                 /\ 100 * db_time > 80 * total_time
                 /\ total_time > 200
              THEN Append(w5, <<"DB_DOMINATED_REQUEST", db_time, total_time,
                                query_count>>)
              ELSE w5
    IN  [raised |-> FALSE, warns |-> w6]

\* RequestLogEntry.optimization_warnings, lines 107-194, on whole
\* milliseconds: the comparisons with threshold / 2, total * 0.3 and
\* db / total * 100 are multiplied out. A warning is its name with the
\* numbers its text is formatted from. The outcome is the list, or the
\* ConfigurationError of require_env.
optimization_warnings(e) ==
    IF DOMAIN e.performance = {} THEN [raised |-> FALSE, warns |-> <<>>]
    ELSE IF require_env("SLOW_QUERY_THRESHOLD").raised
    THEN [raised |-> TRUE, warns |-> <<>>]
    ELSE
    LET slow_query_threshold == require_env("SLOW_QUERY_THRESHOLD").value
        total_time == e.metadata.duration_ms
        db_time == e.performance.db_session_total_ms
        sql_time == e.performance.sql_execution_total_ms
        db_overhead == db_overhead_ms(e.performance)
        query_count == e.performance.query_count
        w1 == IF query_count > 10
              THEN << <<"N+1_QUERY_SUSPECTED", query_count>> >>
              ELSE IF query_count > 5
              THEN << <<"HIGH_QUERY_COUNT", query_count>> >>
              ELSE <<>>
        w2 == IF sql_time > slow_query_threshold
              THEN Append(w1, <<"SLOW_SQL", sql_time>>)
              ELSE IF sql_time > 100
              THEN Append(w1, <<"MODERATE_SQL", sql_time>>)
              ELSE w1
        w3 == IF /\ 2 * db_overhead > slow_query_threshold
                 /\ 10 * db_overhead > 3 * total_time
              THEN Append(w2, <<"HIGH_CONNECTION_OVERHEAD", db_overhead>>)
              ELSE w2
        w4 == IF /\ total_time > 50
                 /\ 100 * db_time > 80 * total_time
                 /\ total_time > 200
              THEN Append(w3, <<"DB_DOMINATED_REQUEST", db_time, total_time,
                                query_count>>)
              ELSE w3
    IN  [raised |-> FALSE, warns |-> w4]

\* RequestLogEntry(metadata=..., details=..., performance=...), lines
\* 85-93: the fields are stored; the model is frozen, so this is the only
\* step that writes them. perf is a PerformanceBreakdown or None (EmptyDict).
RequestLogEntry_init(duration_ms, perf) ==
    /\ DOMAIN entry_obj = {}
    /\ entry_obj' = [metadata |-> [status_code |-> 200,
                                   duration_ms |-> duration_ms],
                     details |-> EmptyDict,
                     performance |-> perf]
    /\ UNCHANGED <<handlerVars, dispVars, regVars, prodVars, shutPc,
                   histVars, reqVars, fileVars, jsonVars, batchVars, cntVars, environ, evals>>

\* A read of entry.optimization_warnings, or model_dump() of the entry:
\* pydantic runs the method of a computed field on every access.
optimization_warnings_get ==
    /\ DOMAIN entry_obj # {}
    /\ Len(evals) < MaxEvals
    /\ evals' = Append(evals, [environ |-> environ,
                               out |-> optimization_warnings(entry_obj)])
    /\ UNCHANGED <<handlerVars, dispVars, regVars, prodVars, shutPc,
                   histVars, reqVars, fileVars, jsonVars, batchVars, cntVars, environ, entry_obj>>

\* os.environ["SLOW_QUERY_THRESHOLD"] = v, or del of it, anywhere in the
\* process.
environ_set(name, v) ==
    /\ environ' = DictSet(environ, name, v)
    /\ UNCHANGED <<handlerVars, dispVars, regVars, prodVars, shutPc,
                   histVars, reqVars, fileVars, jsonVars, batchVars, cntVars, entry_obj, evals>>

environ_del(name) ==
    /\ name \in DOMAIN environ
    /\ environ' = [k \in DOMAIN environ \ {name} |-> environ[k]]
    /\ UNCHANGED <<handlerVars, dispVars, regVars, prodVars, shutPc,
                   histVars, reqVars, fileVars, jsonVars, batchVars, cntVars, entry_obj, evals>>

\* --------------------------------------------------------- specifications
\* The import of common.logger.persistence: the module body constructs the
\* singleton (line 191) on the importing thread.
ImportSteps ==
    \/ Handler_new_check(Importer)
    \/ Handler_new_locked(Importer)
    \/ Handler_init_check(Importer)
    \/ Handler_init_fields(Importer)
    \/ Handler_start_worker(Importer)

\* The LogPersistenceWorker thread, with its calls into the registry.
WorkerSteps ==
    \/ process_queue_test
    \/ process_queue_get
    \/ process_queue_fill
    \/ process_queue_task_done
    \/ write_batch_begin
    \/ write_batch_sinks
    \/ write_batch_failed
    \/ write_batch_entry
    \/ write_batch_done
    \/ get_active_backends("worker")
    \/ initialize_backends_loop("worker")
    \/ initialize_backends_test("worker")
    \/ initialize_backends_fallback("worker")
    \/ initialize_backends_mark("worker")

\* The thread serving /metrics.
MetricsSteps ==
    \/ metrics_call
    \/ metrics_return
    \/ get_active_backends("metrics")
    \/ initialize_backends_loop("metrics")
    \/ initialize_backends_test("metrics")
    \/ initialize_backends_fallback("metrics")
    \/ initialize_backends_mark("metrics")

ShutdownSteps ==
    \/ shutdown_signal
    \/ shutdown_join_queue
    \/ shutdown_join_worker

\* Threads other than the importing one calling LogPersistenceHandler().
CtorSteps ==
    \E t \in CtorThreads \ {Importer} :
        \/ Handler_call(t)
        \/ Handler_new_check(t)
        \/ Handler_new_locked(t)
        \/ Handler_init_check(t)
        \/ Handler_init_fields(t)
        \/ Handler_start_worker(t)

\* The dispatcher: request threads, the consumer and the shutdown caller.
Next ==
    \/ ImportSteps
    \/ enqueue_log
    \/ WorkerSteps
    \/ register_backend
    \/ ShutdownSteps

Spec == Init /\ [][Next]_vars

\* The registry under its two callers, the consumer and /metrics.
NextRegistry ==
    \/ ImportSteps
    \/ enqueue_log
    \/ WorkerSteps
    \/ register_backend
    \/ MetricsSteps

SpecRegistry == Init /\ [][NextRegistry]_vars

\* The dispatcher with the threads scheduled fairly: the module import runs
\* to its end and the consumer thread is never held back for ever.
SpecFair ==
    /\ Spec
    /\ WF_vars(ImportSteps)
    /\ WF_vars(WorkerSteps)

\* The registry under its two callers, scheduled fairly: the import, the
\* consumer thread and a /metrics handler that has started are never held
\* back for ever.
SpecRegistryFair ==
    /\ SpecRegistry
    /\ WF_vars(ImportSteps)
    /\ WF_vars(WorkerSteps)
    /\ WF_vars(MetricsSteps)

\* The unlocked counter _failed_logs under the threads that add to it: the
\* request threads on a full queue and the consumer, whose batches fail as
\* a whole because LOG_BACKENDS is not set. Each "+=" is a load and a
\* store, and the threads interleave between the two.
NextCounter ==
    \/ ImportSteps
    \/ \E t \in ProducerThreads :
         \/ enqueue_log_put(t)
         \/ enqueue_log_load(t)
         \/ enqueue_log_store(t)
    \/ process_queue_test
    \/ process_queue_get
    \/ process_queue_fill
    \/ process_queue_task_done
    \/ write_batch_begin
    \/ get_active_backends("worker")
    \/ write_batch_failed_load
    \/ write_batch_failed_store

InitCounter == Init /\ config = <<>>

SpecCounter == InitCounter /\ [][NextCounter]_vars

\* Construction of the handler from several threads while the dispatcher
\* runs.
NextHandler ==
    \/ ImportSteps
    \/ CtorSteps
    \/ enqueue_log
    \/ WorkerSteps

SpecHandler == Init /\ [][NextHandler]_vars

\* Headers of an inbound request, as far as dispatch reads them: without
\* X-Request-ID, with an empty one, with a value.
InboundHeaders ==
    {EmptyDict, DictSet(EmptyDict, "X-Request-ID", ""),
     DictSet(EmptyDict, "X-Request-ID", "abc")}

\* One request through the interceptor, with the steps of its handler:
\* its headers are drawn from H, the names of its sub-spans from N, the
\* status of its response from S and the outcome of the console call from C.
RequestSteps(r, H, N, S, C) ==
    \/ \E h \in H : dispatch_open(r, h)
    \/ dispatch_call_next(r)
    \/ \E name \in N : handler_capture_enter(r, name)
    \/ handler_capture_exit(r)
    \/ handler_capture_abort(r)
    \/ enable_perf_headers(r)
    \/ \E status \in S : handler_return(r, status)
    \/ handler_raise(r)
    \/ dispatch_reraise(r)
    \/ \E console \in C : dispatch_finish(r, console)

\* The interceptor under every configuration, serving one request under
\* every input.
NextRequest ==
    \/ ImportSteps
    \/ \E expose, details \in BOOLEAN : \E threshold \in Thresholds :
          Middleware_init(expose, details, threshold)
    \/ \E d \in TickSizes : Tick(d)
    \/ RequestSteps(1, InboundHeaders, SpanNames, StatusCodes,
                    {"ok", "raise"})

\* The sinks play no part before the consumer runs: LOG_BACKENDS is fixed.
InitRequest == Init /\ config = <<"file">>

SpecRequest == InitRequest /\ [][NextRequest]_vars

\* The interceptor as main.py constructs it outside production, serving
\* NumRequests requests whose steps interleave; the requests carry no
\* X-Request-ID, their handlers open "db" sub-spans and answer 200. Which
\* recorder a span goes to does not depend on the readings of the clock,
\* which stands still here.
NextConcurrent ==
    \/ ImportSteps
    \/ Middleware_init(TRUE, TRUE, 1000)
    \/ \E r \in Requests :
          RequestSteps(r, {EmptyDict}, {"db"}, {200}, {"ok"})

SpecConcurrent == InitRequest /\ [][NextConcurrent]_vars

\* Keyword arguments of a logging call: none, or a "date" that is the last
\* day of a week, a New Year's Day inside week 1, a New Year's Day inside
\* week 52 of the year before, or no date at all.
DateKwargs ==
    {EmptyDict} \cup
    {[k \in {"date"} |-> s] :
        s \in {<<2024, 12, 29>>, <<2025, 1, 1>>, <<2023, 1, 1>>,
               <<2025, 2, 29>>}}

\* The file sink fed by the logger over the days from FirstDay on: entries
\* are built with and without a "date" keyword argument, and midnights pass
\* between the building of an entry and its write.

NextFile ==
    \/ \E kwargs \in DateKwargs : log_with_persistence(kwargs)
    \/ DayPasses
    \/ \E io \in {"ok", "false"} : FileBackend_write_call(io)

SpecFile == InitRequest /\ [][NextFile]_vars

\* Mappings handed to the two writers: strings with a line feed, a quote, a
\* backslash and the punctuation of JSON in them, such keys, numbers, the
\* constants, nested lists and dicts, the empty mapping, and a value json
\* cannot encode.
SampleEntries ==
    << JDict(<< <<"k">> >>, << JStr(<<"a">>) >>),
       JDict(<< <<"k">> >>, << JStr(<<>>) >>),
       JDict(<< <<"k">> >>, << JStr(<<"a", NL, "b">>) >>),
       JDict(<< <<"k">> >>, << JStr(<<"\"", ",", " ">>) >>),
       JDict(<< <<"k">> >>, << JStr(<<"\\", "n">>) >>),
       JDict(<< <<"\"", ":">> >>, << JInt(0) >>),
       JDict(<< <<"k">>, <<"m">> >>, << JInt(-12), JNull >>),
       JDict(<< <<"k">>, <<"m">> >>, << JTrue, JFalse >>),
       JDict(<< <<"k">> >>,
             << JList(<< JStr(<<"}", NL>>), JInt(7), JList(<<>>) >>) >>),
       JDict(<< <<"k">>, <<"m">> >>,
             << JDict(<< <<"m">> >>, << JStr(<<"a", "]">>) >>),
                JDict(<<>>, <<>>) >>),
       JDict(<<>>, <<>>),
       JDict(<< <<"k">> >>, << JObject >>),
       JDict(<< <<"k", NL>> >>, << JStr(<<"1", "0">>) >>),
       JDict(<< <<"k">> >>, << JInt(10) >>) >>

\* The two writers appending to one fresh weekly file, in any order.
NextJson ==
    \/ \E i \in DOMAIN SampleEntries, io \in {"ok", "raise"} :
          write_log_entry(SampleEntries[i], io)
    \/ \E i \in DOMAIN SampleEntries, io \in {"ok", "false"} :
          FileBackend_write_payload(SampleEntries[i], io)

SpecJson == InitRequest /\ [][NextJson]_vars

\* The PerformanceBreakdown objects an entry is built with.
Breakdowns ==
    {[total_ms |-> 0, app_logic_ms |-> 0,
      db_session_total_ms |-> sql + o, sql_execution_total_ms |-> sql,
      query_count |-> q] :
        sql \in SqlTimes, o \in Overheads, q \in QueryCounts}

\* One entry, built with or without a breakdown, whose warnings are read
\* while the environment of the process changes.
NextWarnings ==
    \/ \E d \in Durations, perf \in Breakdowns :
          RequestLogEntry_init(d, perf)
    \/ \E d \in Durations : RequestLogEntry_init(d, EmptyDict)
    \/ optimization_warnings_get
    \/ \E v \in Thresholds : environ_set("SLOW_QUERY_THRESHOLD", v)
    \/ environ_del("SLOW_QUERY_THRESHOLD")

SpecWarnings == InitRequest /\ [][NextWarnings]_vars

\* ================================================================ claims
\* An enqueue_log call has just returned: every call takes a fresh entry.
Enqueued == lastEnqueue'.id # lastEnqueue.id

\* C1: when the queue is at capacity, enqueue_log returns false in the same
\* step (no wait, no exception), the queue keeps its contents and
\* failed_logs grows by exactly 1.
C1_FullQueueDrops ==
    [][(Enqueued /\ Len(queue) = QueueCapacity)
        => /\ lastEnqueue'.result = FALSE
           /\ queue' = queue
           /\ failed_logs' = failed_logs + 1]_vars

\* An entry was dropped on a full queue and counted.
C1_Witness ==
    /\ lastEnqueue.id > 0
    /\ lastEnqueue.result = FALSE
    /\ Len(queue) = QueueCapacity
    /\ lastEnqueue.id \notin Range(queue)
    /\ failed_logs >= 1

\* C2 (as claimed): shutdown always returns; it is never left waiting in
\* Queue.join() for tasks that nobody will mark done, the consumer having
\* exited with entries still unfinished.
ShutdownHung == shutPc = "join" /\ workerPc = "exited" /\ unfinished > 0

C2_ShutdownNeverHangs == ~ShutdownHung

\* The state C2 excludes is a hang and not a delay: no step leads out of
\* it, since only the consumer calls task_done.
C2_HungStaysHung == [][ShutdownHung => ShutdownHung']_vars

\* Entry e was handed to write on every active sink.
WrittenToSinks(e) ==
    /\ active # <<>>
    /\ \A i \in DOMAIN active : e \in Range(active[i].calls)

\* C3 (as claimed): when the consumer thread has exited, every entry that
\* was in the queue when shutdown was signalled has been written to the
\* active sinks.
C3_DrainsBeforeExit ==
    workerPc = "exited" => \A e \in atShutdown : WrittenToSinks(e)

\* C4: when _write_batch leaves its loops, write has been called for every
\* entry of the batch on every active sink, whatever the calls did.
C4_EveryEntryEverySink ==
    [][(workerPc = "writing" /\ workerPc' = "task_done")
        => \A b \in DOMAIN active : \A k \in DOMAIN batch :
              batch[k] \in Range(active[b].calls)]_vars

\* A two-entry batch went to two sinks; the first sink raised on the first
\* entry and still received the second, and the other sink received both.
C4_Witness ==
    /\ workerPc = "task_done"
    /\ Len(batch) = 2
    /\ Len(active) = 2
    /\ active[1].kind = "dd"
    /\ active[1].calls = batch
    /\ batch[1] \notin Range(active[1].lines)
    /\ active[2].calls = batch

TwoFileSinks ==
    /\ Len(active) = 2
    /\ active[1].kind = "file"
    /\ active[2].kind = "file"

\* Entry e was appended by one of the two sinks and failed on the other.
Mixed(e) ==
    \E i, j \in {1, 2} :
        /\ i # j
        /\ e \in Range(active[i].lines)
        /\ e \in Range(active[j].calls)
        /\ e \notin Range(active[j].lines)

\* C5: with two file sinks active, an entry that one sink wrote and the
\* other failed on has caused exactly one total_writes increment and one
\* failed_writes increment, each sink's counters account for its own
\* successes and failures, and the consumer thread is alive unless shutdown
\* was signalled.
C5_OneSuccessOneFailure ==
    \A e \in EntryIds :
        (TwoFileSinks /\ Mixed(e))
        => /\ entryMetrics[e] = [succ |-> 1, fail |-> 1]
           /\ \A i \in {1, 2} :
                /\ active[i].total_writes = Len(active[i].lines)
                /\ active[i].failed_writes
                     = Len(active[i].calls) - Len(active[i].lines)
           /\ (get_metrics.worker_alive \/ shutdown_event)

\* One sink failed on an entry, the other wrote it, and the consumer has
\* since taken the first item of a following batch.
C5_Witness ==
    /\ TwoFileSinks
    /\ \E e \in EntryIds : Mixed(e) /\ e \notin Range(batch)
    /\ workerPc = "fill"
    /\ get_metrics.worker_alive

\* C6: the consumer thread ends only at its loop test with the shutdown
\* flag set; no failure inside an iteration ends it.
C6_WorkerSurvivesErrors ==
    [][(workerPc # "exited" /\ workerPc' = "exited")
        => (workerPc = "loop" /\ shutdown_event)]_vars

\* After an exception in an earlier iteration, and without shutdown, the
\* consumer has taken the first item of a following batch.
C6_Witness ==
    /\ errSeen
    /\ ~shutdown_event
    /\ workerPc = "fill"

\* C7: the queue never holds more than its capacity; enqueue_log returns
\* true exactly when there was room, and then the entry is the new tail.
C7_QueueBounded ==
    /\ [](Len(queue) <= QueueCapacity)
    /\ [][Enqueued
          => /\ lastEnqueue'.result = (Len(queue) < QueueCapacity)
             /\ lastEnqueue'.result
                  => queue' = Append(queue, lastEnqueue'.id)]_vars

\* The last enqueue was accepted and filled the queue to its capacity.
C7_Witness ==
    /\ lastEnqueue.id > 0
    /\ lastEnqueue.result = TRUE
    /\ Len(queue) = QueueCapacity
    /\ queue[Len(queue)] = lastEnqueue.id

\* C8: however the constructions interleave, there is one handler object,
\* one queue and one started worker: never a second of any, and exactly
\* one of each once the module is loaded.
C8_SingleHandler ==
    /\ objectsCreated <= 1
    /\ queuesCreated <= 1
    /\ workersStarted <= 1
    /\ ModuleLoaded => /\ instance = 1
                       /\ initialized
                       /\ queuesCreated = 1
                       /\ workersStarted = 1

\* Two threads are inside LogPersistenceHandler() at once while the queue
\* holds an entry and the worker runs.
C8_Witness ==
    /\ ctorPc[1] = "init"
    /\ ctorPc[2] = "init"
    /\ queue # <<>>
    /\ workerPc \notin {"none", "exited"}

SortedSeq(S) ==
    CHOOSE q \in [1..Cardinality(S) -> S] :
        \A i, j \in 1..Cardinality(S) : i < j => q[i] < q[j]

FileWriteCalled(i) ==
    /\ i \in DOMAIN active
    /\ i \in DOMAIN active'
    /\ active[i].kind = "file"
    /\ active'[i].calls # active[i].calls

\* C11: a call of write on a file sink ends in a return value, never in an
\* exception; it raises total_writes by 1 and leaves failed_writes, or
\* raises failed_writes by 1 and leaves total_writes, and after it the two
\* counters add up to the number of write calls made on that sink.
C11_WriteCountsOnce ==
    [][\A i \in DOMAIN active :
         FileWriteCalled(i)
         => /\ Len(active'[i].calls) = Len(active[i].calls) + 1
            /\ errSeen' = errSeen
            /\ \/ /\ active'[i].total_writes = active[i].total_writes + 1
                  /\ active'[i].failed_writes = active[i].failed_writes
               \/ /\ active'[i].total_writes = active[i].total_writes
                  /\ active'[i].failed_writes = active[i].failed_writes + 1
            /\ active'[i].total_writes + active'[i].failed_writes
                 = Len(active'[i].calls)]_vars

\* One file sink has returned true for one entry and false for another.
C11_Witness ==
    \E i \in DOMAIN active :
        /\ active[i].kind = "file"
        /\ active[i].total_writes = 1
        /\ active[i].failed_writes = 1
        /\ Len(active[i].calls) = 2
        /\ Len(active[i].lines) = 1

\* The dispatch of request r has ended, with a response or an exception.
DispatchEnded(r) == req[r].pc \in {"DISPATCHED", "RAISED"}

\* C12 (as claimed): dispatch raises nothing of its own; it ends in an
\* exception only when the handler raised one, and a response the handler
\* produced is returned whatever happens while the entry is logged.
C12_TelemetryNeverRaises ==
    \A r \in Requests : req[r].pc = "RAISED" => req[r].exc

\* C13 (as claimed): a dispatch whose call on the logger, if it made one,
\* returned, has ended DISPATCHED whether its handler returned or raised,
\* with exactly one entry logged, which carries the breakdown captured in
\* the finally block and the status code.
C13_EntryOnEveryExit ==
    \A r \in Requests :
        (/\ DispatchEnded(r)
         /\ \A i \in DOMAIN log_calls[r] : log_calls[r][i].console = "ok")
        => /\ req[r].pc = "DISPATCHED"
           /\ Len(log_calls[r]) = 1
           /\ log_calls[r][1].entry.performance = req[r].perf_data
           /\ log_calls[r][1].entry.metadata.status_code
                = req[r].status_code

\* The sub-spans of request r that a step closes.
SpansClosed(r) ==
    {req[r].spans[i] : i \in (Len(req'[r].spans) + 1)..Len(req[r].spans)}

\* C14 (as claimed): whenever a span is closed, by the return of the wrapped
\* work or by an exception leaving it, the time elapsed since it was opened
\* is added to its bucket; this holds of the sub-spans of the handler and
\* of the "app" span around call_next.
C14_ReleasedOnEveryExit ==
    [][\A r \in Requests :
         /\ \A sp \in SpansClosed(r) :
              /\ sp.name \in DOMAIN timings'[sp.timer]
              /\ timings'[sp.timer][sp.name]
                   >= DictGet(timings[sp.timer], sp.name, 0)
                        + (clock - sp.start)
         /\ (req[r].pc = "IN_FLIGHT" /\ req'[r].pc = "CLOSED")
            => /\ "app" \in DOMAIN timings'[r]
               /\ timings'[r]["app"]
                    = DictGet(timings[r], "app", 0)
                        + (clock - req[r].app_start)]_vars

\* The sum of the durations of the spans in seq that were opened on timer
\* t under the given name.
RECURSIVE SpanSum(_, _, _)
SpanSum(seq, t, name) ==
    IF seq = <<>> THEN 0
    ELSE (IF Head(seq).timer = t /\ Head(seq).name = name
          THEN Head(seq).duration ELSE 0)
         + SpanSum(Tail(seq), t, name)

\* The same sum over the completed spans of the requests 1..n.
RECURSIVE CompletedSum(_, _, _)
CompletedSum(n, t, name) ==
    IF n = 0 THEN 0
    ELSE SpanSum(req[n].completed, t, name) + CompletedSum(n - 1, t, name)

\* C15: on every timer the value recorded for a name (0 while the name is
\* absent) is the sum of the durations of the completed spans of that
\* name, so that a release adds to its bucket and touches no other, and no
\* bucket ever decreases.
C15_BucketIsSum ==
    /\ [](\A t \in Requests : \A name \in SpanNames \cup {"app"} :
            DictGet(timings[t], name, 0)
              = CompletedSum(NumRequests, t, name))
    /\ [][\A t \in Requests : \A name \in SpanNames \cup {"app"} :
            DictGet(timings'[t], name, 0) >= DictGet(timings[t], name, 0)]_vars

\* Two "db" spans of 1000 ms each have completed on the timer of a request
\* in flight, and the bucket reads 2000.
C15_Witness ==
    \E r \in Requests :
        /\ req[r].pc = "IN_FLIGHT"
        /\ req[r].completed
             = <<[timer |-> r, name |-> "db", duration |-> 1000],
                 [timer |-> r, name |-> "db", duration |-> 1000]>>
        /\ timings[r] = DictSet(EmptyDict, "db", 2000)

\* C16: whatever the interleaving, a handler in flight finds the timer of
\* its own request in the context variable and every sub-span it reports is
\* opened on that timer; a step of one request changes no other request's
\* timer; and once the finally block of a request has run, after a return
\* or a failure of its handler, the context variable of its task holds
\* what it held before the request, None.
C16_OwnRecorder ==
    /\ [](\A r \in Requests :
            /\ req[r].pc = "IN_FLIGHT" => hctx[r] = r
            /\ \A i \in DOMAIN req[r].spans : req[r].spans[i].timer = r
            /\ \A i \in DOMAIN req[r].completed :
                 req[r].completed[i].timer = r
            /\ req[r].pc \in {"CLOSED", "DISPATCHED", "RAISED"}
                 => ctx[r] = NoTimer)
    /\ [][\A r, q \in Requests :
            (req'[r] # req[r] /\ q # r) => timings'[q] = timings[q]]_vars

\* Two requests overlapped: the first has failed with a "db" span recorded
\* on its timer and its context variable restored, while the second is in
\* flight with a "db" span of its own recorded and another one open.
C16_Witness ==
    /\ req[1].pc = "RAISED"
    /\ req[1].exc
    /\ "db" \in DOMAIN timings[1]
    /\ ctx[1] = NoTimer
    /\ req[2].pc = "IN_FLIGHT"
    /\ ctx[2] = 2
    /\ "db" \in DOMAIN timings[2]
    /\ Len(req[2].spans) = 1
    /\ "app" \notin DOMAIN timings[2]

C18_SameIdInHeaderAndEntry ==
    \A r \in Requests :
        req[r].pc = "DISPATCHED"
        => /\ DictGet(req[r].response_headers, "X-Request-ID", "")
                = req[r].request_id
           /\ Len(log_calls[r]) = 1
           /\ DictGet(log_calls[r][1].entry.details, "request_id", "")
                = req[r].request_id

\* C19: a response carries Server-Timing only if expose_performance_headers
\* was set on the middleware or enable_perf_headers ran for that request,
\* and every response returned under either carries it; under the defaults
\* (the toggle off, the attribute missing) no response does.
C19_TimingHeaderOptIn ==
    \A r \in Requests :
        /\ "Server-Timing" \in DOMAIN req[r].response_headers
             => (mw.expose_performance_headers \/ req[r].expose_perf)
        /\ (req[r].pc = "DISPATCHED"
            /\ (mw.expose_performance_headers \/ req[r].expose_perf))
             => "Server-Timing" \in DOMAIN req[r].response_headers

\* A response was returned without Server-Timing, the toggle being off and
\* the request not marked, after time was spent in a "db" span.
C19_Witness ==
    \E r \in Requests :
        /\ req[r].pc = "DISPATCHED"
        /\ ~mw.expose_performance_headers
        /\ ~req[r].expose_perf
        /\ "db" \in DOMAIN timings[r]
        /\ req[r].perf_data.total_ms > 0
        /\ DOMAIN req[r].response_headers = {"X-Request-ID"}

\* The date an entry carries: its "date" if it has one, else the date of
\* its "timestamp".
EntryDate(e) == fromisoformat(DictGet(e, "date", e["timestamp"]))

\* The Monday of the Monday-to-Sunday week of day d.
WeekMonday(d) == CHOOSE m \in (d - 6)..d : weekday(m) = 0

\* ISO 8601: a week belongs to the year its Thursday lies in, and week 1 is
\* the week of the year's first Thursday.
IsoWeekNumber(d) ==
    LET thursday == WeekMonday(d) + 3
    IN  (thursday - days_before_year(isoformat(thursday)[1])) \div 7 + 1

\* C20: every line of every weekly file is in the file of its entry's own
\* date, whatever day it was written on: the file name is the ISO week
\* number, the Monday and the Sunday of the week of the entry's date, and
\* two entries share a file exactly when their dates share a week.
C20_FileByEntryDate ==
    /\ \A n \in DOMAIN files : \A i \in DOMAIN files[n] :
          LET d == EntryDate(files[n][i])
          IN  n = <<IsoWeekNumber(d), isoformat(WeekMonday(d)),
                    isoformat(WeekMonday(d) + 6)>>
    /\ \A n1, n2 \in DOMAIN files :
          \A i \in DOMAIN files[n1], j \in DOMAIN files[n2] :
             (WeekMonday(EntryDate(files[n1][i]))
                 = WeekMonday(EntryDate(files[n2][j]))) <=> (n1 = n2)

\* json.loads: a recursive-descent reading of a text. Every step returns
\* whether it succeeded, the value read and the position after it.
ParseFail == [ok |-> FALSE, v |-> JNull, pos |-> 0]
ParseOk(v, pos) == [ok |-> TRUE, v |-> v, pos |-> pos]

RECURSIVE skip_ws(_, _)
skip_ws(t, i) == IF i <= Len(t) /\ t[i] = " " THEN skip_ws(t, i + 1) ELSE i

\* The characters of a string from position i, after the opening quote, up
\* to the closing quote; a control character inside a string is an error.
RECURSIVE scan_string(_, _, _)
scan_string(t, i, acc) ==
    IF i > Len(t) THEN ParseFail
    ELSE IF t[i] = "\"" THEN ParseOk(JStr(acc), i + 1)
    ELSE IF t[i] = NL THEN ParseFail
    ELSE IF t[i] = "\\"
         THEN IF i + 1 > Len(t) THEN ParseFail
              ELSE IF t[i + 1] = "n" THEN scan_string(t, i + 2, Append(acc, NL))
              ELSE IF t[i + 1] \in {"\"", "\\"}
                   THEN scan_string(t, i + 2, Append(acc, t[i + 1]))
              ELSE ParseFail
    ELSE scan_string(t, i + 1, Append(acc, t[i]))

DigitOf(c) == CHOOSE n \in 0..9 : DigitChars[n + 1] = c
IsDigit(c) == \E n \in 0..9 : DigitChars[n + 1] = c

RECURSIVE scan_digits(_, _, _)
scan_digits(t, i, acc) ==
    IF i <= Len(t) /\ IsDigit(t[i])
    THEN scan_digits(t, i + 1, acc * 10 + DigitOf(t[i]))
    ELSE ParseOk(JInt(acc), i)

scan_int(t, i) ==
    IF t[i] = "-"
    THEN IF i + 1 <= Len(t) /\ IsDigit(t[i + 1])
         THEN LET r == scan_digits(t, i + 1, 0)
              IN  ParseOk(JInt(-r.v.n), r.pos)
         ELSE ParseFail
    ELSE scan_digits(t, i, 0)

\* The text has the word w at position i.
HasWord(t, i, w) ==
    /\ i + Len(w) - 1 <= Len(t)
    /\ SubSeq(t, i, i + Len(w) - 1) = w

RECURSIVE parse_value(_, _)
RECURSIVE parse_elements(_, _, _)
RECURSIVE parse_members(_, _, _, _)
parse_value(t, i0) ==
    LET i == skip_ws(t, i0)
    IN  IF i > Len(t) THEN ParseFail
        ELSE IF t[i] = "\"" THEN scan_string(t, i + 1, <<>>)
        ELSE IF t[i] = "-" \/ IsDigit(t[i]) THEN scan_int(t, i)
        ELSE IF HasWord(t, i, <<"n", "u", "l", "l">>) THEN ParseOk(JNull, i + 4)
        ELSE IF HasWord(t, i, <<"t", "r", "u", "e">>) THEN ParseOk(JTrue, i + 4)
        ELSE IF HasWord(t, i, <<"f", "a", "l", "s", "e">>)
             THEN ParseOk(JFalse, i + 5)
        ELSE IF t[i] = "["
             THEN LET j == skip_ws(t, i + 1)
                  IN  IF j <= Len(t) /\ t[j] = "]"
                      THEN ParseOk(JList(<<>>), j + 1)
                      ELSE parse_elements(t, i + 1, <<>>)
        ELSE IF t[i] = "{"
             THEN LET j == skip_ws(t, i + 1)
                  IN  IF j <= Len(t) /\ t[j] = "}"
                      THEN ParseOk(JDict(<<>>, <<>>), j + 1)
                      ELSE parse_members(t, i + 1, <<>>, <<>>)
        ELSE ParseFail

parse_elements(t, i, acc) ==
    LET r == parse_value(t, i)
        j == skip_ws(t, r.pos)
    IN  IF ~r.ok \/ j > Len(t) THEN ParseFail
        ELSE IF t[j] = "," THEN parse_elements(t, j + 1, Append(acc, r.v))
        ELSE IF t[j] = "]" THEN ParseOk(JList(Append(acc, r.v)), j + 1)
        ELSE ParseFail

parse_members(t, i0, keys, items) ==
    LET i == skip_ws(t, i0)
        k == IF i <= Len(t) /\ t[i] = "\"" THEN scan_string(t, i + 1, <<>>)
             ELSE ParseFail
        c == skip_ws(t, k.pos)
        r == IF k.ok /\ c <= Len(t) /\ t[c] = ":" THEN parse_value(t, c + 1)
             ELSE ParseFail
        j == skip_ws(t, r.pos)
    IN  IF ~r.ok \/ j > Len(t) THEN ParseFail
        ELSE IF t[j] = ","
             THEN parse_members(t, j + 1, Append(keys, k.v.s),
                                Append(items, r.v))
        ELSE IF t[j] = "}"
             THEN ParseOk(JDict(Append(keys, k.v.s), Append(items, r.v)), j + 1)
        ELSE ParseFail

json_loads(t) ==
    LET r == parse_value(t, 1)
    IN  IF r.ok /\ skip_ws(t, r.pos) = Len(t) + 1 THEN r ELSE ParseFail

\* The lines of a text: the runs of characters each ended by a line feed,
\* and what follows the last line feed if anything does.
RECURSIVE split_lines(_, _)
split_lines(t, cur) ==
    IF t = <<>> THEN (IF cur = <<>> THEN <<>> ELSE <<cur>>)
    ELSE IF Head(t) = NL THEN <<cur>> \o split_lines(Tail(t), <<>>)
    ELSE split_lines(Tail(t), Append(cur, Head(t)))

Lines(t) == split_lines(t, <<>>)

\* The file has one line per mapping written, in the order of the writes,
\* and each line parses back to its mapping.
LinesRoundTrip(t, written) ==
    /\ Len(Lines(t)) = Len(written)
    /\ \A i \in DOMAIN written :
          /\ json_loads(Lines(t)[i]).ok
          /\ json_loads(Lines(t)[i]).v = written[i]

\* C21: after every step the weekly file has exactly one line per mapping
\* appended to it, in append order, each parsing back to the mapping that
\* was written; a successful write adds one line after the lines that were
\* there and leaves those as they were, and a failed write changes nothing.
C21_AppendRoundTrip ==
    [][/\ LinesRoundTrip(content', appended')
       /\ Len(appended') = Len(appended) + 1 =>
             /\ Len(Lines(content')) = Len(Lines(content)) + 1
             /\ SubSeq(Lines(content'), 1, Len(Lines(content)))
                   = Lines(content)
       /\ appended' = appended => content' = content]_vars

\* Two mappings are in the file, the first with a line feed inside a string
\* and the second with a nested list holding one.
C21_Witness ==
    /\ Len(appended) = 2
    /\ appended[1] = SampleEntries[3]
    /\ appended[2] = SampleEntries[9]
    /\ Len(Lines(content)) = 2

\* The rule of section 4.5 a warning belongs to.
RuleOf(name) ==
    CASE name \in {"N+1_QUERY_SUSPECTED", "HIGH_QUERY_COUNT"} -> 1
      [] name \in {"SLOW_SQL", "MODERATE_SQL"} -> 2
      [] name = "HIGH_CONNECTION_OVERHEAD" -> 3
      [] name = "DB_DOMINATED_REQUEST" -> 4

WarningNames ==
    {"N+1_QUERY_SUSPECTED", "HIGH_QUERY_COUNT", "SLOW_SQL", "MODERATE_SQL",
     "HIGH_CONNECTION_OVERHEAD", "DB_DOMINATED_REQUEST"}

\* The warning applies to entry e under the slow-query threshold thr.
Applies(name, e, thr) ==
    /\ DOMAIN e.performance # {}
    /\ LET p == e.performance
           total == e.metadata.duration_ms
       IN  CASE name = "N+1_QUERY_SUSPECTED" -> p.query_count >= 11
             [] name = "HIGH_QUERY_COUNT" -> p.query_count \in 6..10
             [] name = "SLOW_SQL" -> p.sql_execution_total_ms > thr
             [] name = "MODERATE_SQL" ->
                   /\ p.sql_execution_total_ms > 100
                   /\ p.sql_execution_total_ms <= thr
             [] name = "HIGH_CONNECTION_OVERHEAD" ->
                   /\ 2 * (p.db_session_total_ms - p.sql_execution_total_ms)
                         > thr
                   /\ 10 * (p.db_session_total_ms - p.sql_execution_total_ms)
                         > 3 * total
             [] name = "DB_DOMINATED_REQUEST" ->
                   /\ total > 200
                   /\ 5 * p.db_session_total_ms > 4 * total

\* C22: every list optimization_warnings returns holds exactly the warnings
\* that apply, ordered by rule (query count, SQL duration, connection
\* overhead, DB dominance) with at most one warning per rule, hence at most
\* four warnings.
C22_WarningsInRuleOrder ==
    \A i \in DOMAIN evals :
       ~evals[i].out.raised =>
          LET w == evals[i].out.warns
              thr == DictGet(evals[i].environ, "SLOW_QUERY_THRESHOLD", 0)
          IN  /\ \A j, k \in DOMAIN w :
                    j < k => RuleOf(w[j][1]) < RuleOf(w[k][1])
              /\ {w[j][1] : j \in DOMAIN w}
                    = {name \in WarningNames : Applies(name, entry_obj, thr)}
              /\ Len(w) <= 4

\* An evaluation returned four warnings, one of every rule, the first and
\* the last rule at the ends of the list.
C22_Witness ==
    \E i \in DOMAIN evals :
       /\ ~evals[i].out.raised
       /\ Len(evals[i].out.warns) = 4
       /\ evals[i].out.warns[1][1] = "N+1_QUERY_SUSPECTED"
       /\ evals[i].out.warns[4][1] = "DB_DOMINATED_REQUEST"

\* C23: the entry is frozen, so all evaluations of its optimization_warnings
\* come out the same, whatever else happened in the process between them.
C23_WarningsFixedAtConstruction ==
    \A i, j \in DOMAIN evals : evals[i].out = evals[j].out

\* The consumer hands its batch to _write_batch.
BatchHandedOver == workerPc = "fill" /\ workerPc' = "write"

\* C24 (as claimed): when more entries than the batch cap were pending as
\* the consumer obtained the first item, the batch it writes holds that
\* item and as many additional items as the cap says (1 + 100).
C24_FirstPlusCapAdditional ==
    [][(BatchHandedOver /\ pendingAtGet >= MaxBatch + 1)
        => Len(batch) = MaxBatch + 1]_vars

\* C24 (amended): under the same condition the batch holds the first item
\* and one less than the cap of additional items (1 + 99), the cap in all,
\* each taken by a get_nowait, and it is written as it stands.
C24_FirstPlusCapMinusOne ==
    [][(BatchHandedOver /\ pendingAtGet >= MaxBatch + 1)
        => /\ Len(batch) = MaxBatch
           /\ batch' = batch]_vars

\* The batch has reached the cap and is about to be handed over; more than
\* the cap were pending at the get and an entry is still waiting.
C24_Witness ==
    /\ workerPc = "fill"
    /\ pendingAtGet >= MaxBatch + 1
    /\ Len(batch) = MaxBatch
    /\ queue # <<>>

\* C25: every batch handed to _write_batch holds at least one and at most
\* MaxBatch entries; the consumer builds it by taking the head of the queue
\* each time, so batch followed by queue stays what it was; it takes a
\* further item only below the cap and from a queue that is not empty, so
\* it hands the batch over at the cap or on an empty queue.
C25_BatchIsBoundedRunFromHead ==
    [][/\ (batch' # batch /\ batch' # <<>>)
            => /\ batch' \o queue' = batch \o queue
               /\ Len(batch') = Len(batch) + 1
       /\ (workerPc = "fill" /\ batch' # batch)
            => (Len(batch) < MaxBatch /\ queue # <<>>)
       /\ BatchHandedOver
            => /\ Len(batch) \in 1..MaxBatch
               /\ (Len(batch) = MaxBatch \/ queue = <<>>)
               /\ batch' = batch]_vars

\* A batch of one entry, ended by the empty queue, is handed over after
\* earlier batches took more than a full batch of entries.
C25_Witness ==
    /\ workerPc = "write"
    /\ Len(batch) = 1
    /\ batch[1] > MaxBatch + 1
    /\ queue = <<>>

\* Entry ids are handed out in the order of the enqueue_log calls, so a
\* sequence of entries is in enqueue order when its ids increase.
InEnqueueOrder(seq) == \A i, j \in DOMAIN seq : i < j => seq[i] < seq[j]

\* C26: the write calls each sink has received are in enqueue order, within
\* a batch and from one batch to the next, whatever the producers and the
\* consumer interleave.
C26_SinkCallsInEnqueueOrder ==
    \A b \in DOMAIN active : InEnqueueOrder(active[b].calls)

\* Two sinks have each received more entries than one batch holds.
C26_Witness ==
    /\ Len(active) >= 2
    /\ \A b \in DOMAIN active : Len(active[b].calls) > MaxBatch

\* The number of times entry e occurs in a sequence of write calls.
Occurrences(seq, e) == Cardinality({i \in DOMAIN seq : seq[i] = e})

\* _write_batch returns: its loops are through (line 123) or the batch
\* was given up (lines 125-129).
WriteBatchReturns ==
    workerPc \in {"backends", "writing"} /\ workerPc' = "task_done"

C27_AcceptedLeavesQueue ==
    \A e \in EntryIds :
        (e \in Range(queue))
            ~> (shutdown_event \/ (e \notin Range(queue) /\ e \notin Range(batch)))

\* No thread stands between the load and the store of a "+=" on
\* _failed_logs.
CounterAtRest == \A t \in CounterThreads : rmw[t].pc # "store"

\* C28: whenever no "+=" is under way, failed_logs is the number of
\* enqueue_log calls that returned False plus the number of entries in the
\* batches the consumer counted as failed.
C28_NoLostIncrement ==
    CounterAtRest => failed_logs = dropped + failedCounted

\* One call of backend.write has returned or raised.
SinkWriteStep == workerPc = "writing" /\ <<bi, ei>>' # <<bi, ei>>

\* C29: a batch whose sink list was obtained leaves _write_batch only
\* through line 123, which adds its size to total_logs, and total_logs
\* changes nowhere else; no call of write, whatever its outcome, changes
\* total_logs or failed_logs; failed_logs changes only when an enqueue_log
\* returns False and when a batch is given up as a whole.
C29_BatchCountedWhateverSinksDo ==
    [][/\ (workerPc = "writing" /\ workerPc' # "writing")
            => /\ workerPc' = "task_done"
               /\ total_logs' = total_logs + Len(batch)
       /\ (total_logs' # total_logs)
            => (workerPc = "writing" /\ workerPc' = "task_done")
       /\ SinkWriteStep
            => (total_logs' = total_logs /\ failed_logs' = failed_logs)
       /\ (failed_logs' # failed_logs)
            => \/ (nextId' = nextId + 1 /\ ~lastEnqueue'.result)
               \/ (workerPc = "backends" /\ workerPc' = "task_done")]_vars

\* A batch has been counted in total_logs although a write of it returned
\* False or raised, and failed_logs has not moved.
C29_Witness ==
    /\ workerPc = "task_done"
    /\ total_logs = Len(batch)
    /\ failed_logs = 0
    /\ \/ errSeen
       \/ \E b \in DOMAIN active : active[b].failed_writes > 0

====
